---- MODULE Spec2Model ----
(***************************************************************************)
(* MercuryFX: the signal pipeline of TradingBot (trading_bot.py), its      *)
(* quality gate and dedup state, the control loop, and the analysers it    *)
(* calls (swing points, pattern detectors, confluence scorer, indicator    *)
(* guard).                                                                 *)
(*                                                                         *)
(* Numbers.  Confidences are floats in the source; here they are integers  *)
(* in thousandths (0.75 is 750).  Return volatilities are in thousandths   *)
(* as well (0.015 is 15).  Prices of bar series are integers in units of   *)
(* 0.0001, so the forex gap threshold 0.0001 is 1.  Timestamps are whole   *)
(* seconds.  All arithmetic on them is exact.                              *)
(*                                                                         *)
(* Python values.  A dict is a function whose DOMAIN is its key set        *)
(* (d.get(k, v) is Get(d, k, v)); None is the record NoneVal; a list is a  *)
(* sequence.                                                               *)
(***************************************************************************)
EXTENDS Integers, Sequences, FiniteSets, TLC

VARIABLES
    \* ---- TradingBot (trading_bot.py) ----
    running,        \* self.running
    last_signals,   \* self.last_signals: symbol -> last delivered signal
    pc,             \* position of the thread that runs start()
    idx,            \* position of "for symbol in self.symbols" (1-based)
    sleep_left,     \* iterations left of the inter-cycle sleep loop
    now,            \* the latest reading of datetime.now()
    last_op,        \* history: what the last process_symbol call did
    cycle_log,      \* history: symbols processed in the current run_cycle
    stop_called,    \* history: "no", "early" (before start) or "yes"
    stop_seen,      \* history: the loop has read self.running = False
    after_stop,     \* history: process_symbol calls begun after stop()
    deliveries,     \* history: signals delivered so far
    first_failed,   \* history: the first symbol of this cycle was skipped or failed
    \* ---- quality gate called on its own ----
    gate_in, gate_out,
    \* ---- analysers called on a bar series ----
    bars,           \* the bar series (sequence of bars)
    swing_strength, \* self.swing_strength of the analyser
    fvg_threshold,  \* self.fvg_threshold of the analyser
    smc_out,        \* what the analysers returned for bars
    \* ---- indicator engine called on a close series ----
    ind_in, ind_out,
    \* ---- a scorer or risk function called on its own ----
    call_in, call_out

botVars   == <<running, last_signals, pc, idx, sleep_left, now, last_op,
               cycle_log, stop_called, stop_seen, after_stop, deliveries,
               first_failed>>
gateVars  == <<gate_in, gate_out>>
barVars   == <<bars, swing_strength, fvg_threshold, smc_out>>
indVars   == <<ind_in, ind_out>>
callVars  == <<call_in, call_out>>
vars      == <<botVars, gateVars, barVars, indVars, callVars>>

-----------------------------------------------------------------------------
(* Python helpers *)

NoneVal == [kind |-> "None"]

Get(d, k, default) == IF k \in DOMAIN d THEN d[k] ELSE default

Count(list, x) == Cardinality({i \in DOMAIN list : list[i] = x})

Max2(a, b) == IF a >= b THEN a ELSE b
Min2(a, b) == IF a <= b THEN a ELSE b

-----------------------------------------------------------------------------
(* TradingBot.__init__ : the configured instruments, in dict order *)

SymbolOrder == <<"EURUSD=X", "GBPUSD=X", "XAUUSD=X", "BTC-USD">>

symbols ==
    [s \in {"EURUSD=X", "GBPUSD=X", "XAUUSD=X", "BTC-USD"} |->
        CASE s = "EURUSD=X" -> [name |-> "EUR/USD", asset_type |-> "forex"]
          [] s = "GBPUSD=X" -> [name |-> "GBP/USD", asset_type |-> "forex"]
          [] s = "XAUUSD=X" -> [name |-> "Gold",    asset_type |-> "commodity"]
          [] s = "BTC-USD"  -> [name |-> "Bitcoin", asset_type |-> "crypto"]]

min_confidence_threshold == 750

-----------------------------------------------------------------------------
(* Market data as the bot sees it.                                         *)
(*   kind "dict"  : what MarketDataClient.fetch_data returns, a dict of    *)
(*                  six lists; n is the number of cleaned bars.            *)
(*   kind "frame" : a pandas DataFrame of n rows, the type the bot's own   *)
(*                  code is written for (data.tail, data['Close'].iloc).   *)
(* vol is the standard deviation of the close-to-close returns of the last *)
(* 20 bars (thousandths), last_close the latest close (whole currency      *)
(* units): facts about the bars, whether or not the code manages to read   *)
(* them.                                                                   *)

MarketDataKeys == {"timestamps", "open", "high", "low", "close", "volume"}

\* len(data): the number of keys of a dict, the number of rows of a frame
PyLen(data) ==
    IF data.kind = "dict" THEN Cardinality(MarketDataKeys) ELSE data.n

MinBars == 200
MinRowsForStd == 3

volatility_thresholds ==
    [a \in {"forex", "commodity", "crypto"} |->
        CASE a = "forex" -> 15 [] a = "commodity" -> 25 [] a = "crypto" -> 50]

is_market_too_volatile(data, symbol) ==
    IF data.kind # "frame"
    THEN FALSE                      \* data.tail raises; except: return False
    ELSE IF data.n < MinRowsForStd
    THEN FALSE                      \* std() of fewer than 2 returns is NaN
    ELSE data.vol > volatility_thresholds[symbols[symbol].asset_type]

HighImpactHours == {8, 9, 13, 14}
WeekendFrom == 5
WeekendMinConfidence == 800
GoldPriceLow == 1800
GoldPriceHigh == 2200

asset_specific_quality_check(symbol, data, smc_signal, hour, weekday) ==
    LET asset_type == symbols[symbol].asset_type IN
    IF data.kind # "frame" \/ data.n = 0
    THEN TRUE                       \* data['Close'].iloc[-1] raises; except: return True
    ELSE CASE asset_type = "forex" -> hour \notin HighImpactHours
           [] asset_type = "crypto" ->
                ~(weekday >= WeekendFrom
                  /\ Get(smc_signal, "confidence", 0) < WeekendMinConfidence)
           [] asset_type = "commodity" ->
                ~(data.last_close < GoldPriceLow \/ data.last_close > GoldPriceHigh)

MinSignalCount == 2

is_high_quality_setup(smc_signal, traditional_signals, symbol, data, hour, weekday) ==
    LET smc_direction    == Get(smc_signal, "action", "None")
        traditional_buy  == Count(traditional_signals, "BUY")
        traditional_sell == Count(traditional_signals, "SELL")
    IN  IF Get(smc_signal, "confidence", 0) < min_confidence_threshold THEN FALSE
        ELSE IF Get(smc_signal, "signal_count", 0) < MinSignalCount THEN FALSE
        ELSE IF smc_direction = "BUY" /\ traditional_buy < traditional_sell THEN FALSE
        ELSE IF smc_direction = "SELL" /\ traditional_sell < traditional_buy THEN FALSE
        ELSE IF is_market_too_volatile(data, symbol) THEN FALSE
        ELSE IF ~asset_specific_quality_check(symbol, data, smc_signal, hour, weekday)
             THEN FALSE
        ELSE TRUE

get_confluence_direction(smc_signal, traditional_signals) ==
    LET smc_direction == Get(smc_signal, "action", "None") IN
    IF smc_direction = "BUY" /\ Count(traditional_signals, "BUY") >= 1 THEN "BUY"
    ELSE IF smc_direction = "SELL" /\ Count(traditional_signals, "SELL") >= 1 THEN "SELL"
    ELSE "None"

\* min(0.7 * smc_confidence + 0.3 * (max(buys, sells) / 3), 1.0), in thousandths
calculate_overall_confidence(smc_signal, traditional_signals) ==
    LET smc_confidence == Get(smc_signal, "confidence", 0)
        strongest == Max2(Count(traditional_signals, "BUY"),
                          Count(traditional_signals, "SELL"))
    IN  Min2((7 * smc_confidence + 1000 * strongest) \div 10, 1000)


-----------------------------------------------------------------------------
(* TradingBot.generate_signal.  The results of its collaborators (the      *)
(* indicator engine, the SMC analysis and the confluence scorer) and the   *)
(* two reads of datetime.now() by the gate are parameters.                 *)

Append3(list, cond_buy, cond_sell) ==
    IF cond_buy THEN Append(list, "BUY")
    ELSE IF cond_sell THEN Append(list, "SELL")
    ELSE list

RsiOversold == 35
RsiOverbought == 65

traditional_signals_of(indicators) ==
    LET ema  == Append3(<<>>,
                    indicators.ema50 > indicators.ema200
                        /\ indicators.price > indicators.ema50,
                    indicators.ema50 < indicators.ema200
                        /\ indicators.price < indicators.ema50)
        rsi  == Append3(ema, indicators.rsi < RsiOversold,
                             indicators.rsi > RsiOverbought)
        macd == Append3(rsi,
                    indicators.macd > indicators.macd_signal /\ indicators.macd > 0,
                    indicators.macd < indicators.macd_signal /\ indicators.macd < 0)
    IN  macd

generate_signal(symbol, data, indicators, smc_analysis, smc_signal, hour, weekday, ts) ==
    IF indicators = NoneVal THEN NoneVal
    ELSE IF smc_analysis = NoneVal THEN NoneVal
    ELSE LET traditional_signals == traditional_signals_of(indicators)
             final_direction == get_confluence_direction(smc_signal, traditional_signals)
         IN  IF ~is_high_quality_setup(smc_signal, traditional_signals, symbol, data,
                                       hour, weekday)
             THEN NoneVal
             ELSE IF final_direction = "None" THEN NoneVal
             ELSE [kind       |-> "signal",
                   symbol     |-> symbol,
                   direction  |-> final_direction,
                   timestamp  |-> ts,
                   confidence |-> calculate_overall_confidence(smc_signal,
                                                               traditional_signals)]

-----------------------------------------------------------------------------
(* TradingBot.should_send_signal and TradingBot.process_symbol *)

DedupWindow == 3600

should_send_signal_inclusive(signal, ls) ==
    IF signal.symbol \in DOMAIN ls
    THEN LET last_signal == ls[signal.symbol]
             time_diff   == signal.timestamp - last_signal.timestamp
         IN  ~(last_signal.direction = signal.direction /\ time_diff <= DedupWindow)
    ELSE TRUE

should_send_signal(signal, ls) ==
    IF signal.symbol \in DOMAIN ls
    THEN LET last_signal == ls[signal.symbol]
             time_diff   == signal.timestamp - last_signal.timestamp
         IN  ~(last_signal.direction = signal.direction /\ time_diff < DedupWindow)
    ELSE TRUE

\* self.last_signals[symbol] = signal
SetItem(d, k, v) == [x \in DOMAIN d \cup {k} |-> IF x = k THEN v ELSE d[x]]

\* The outcome of one call: what it returned through, the candidate it
\* generated (NoneVal if none) and self.last_signals afterwards.  fetched is
\* what fetch_market_data returned, gen the collaborators' results inside
\* generate_signal, success what telegram_client.send_signal returned.
process_symbol_write_before_send(symbol, ls, fetched, gen, success, ts) ==
    IF fetched = NoneVal \/ PyLen(fetched) < MinBars
    THEN [outcome |-> "insufficient", signal |-> NoneVal, last_signals |-> ls]
    ELSE LET signal == generate_signal(symbol, fetched, gen.indicators,
                            gen.smc_analysis, gen.smc_signal, gen.hour, gen.weekday, ts)
         IN  IF signal = NoneVal
             THEN [outcome |-> "no_signal", signal |-> NoneVal, last_signals |-> ls]
             ELSE IF ~should_send_signal(signal, ls)
             THEN [outcome |-> "suppressed", signal |-> signal, last_signals |-> ls]
             ELSE [outcome |-> IF success THEN "sent" ELSE "failed",
                   signal |-> signal, last_signals |-> SetItem(ls, symbol, signal)]

process_symbol(symbol, ls, fetched, gen, success, ts) ==
    IF fetched = NoneVal \/ PyLen(fetched) < MinBars
    THEN [outcome |-> "insufficient", signal |-> NoneVal, last_signals |-> ls]
    ELSE LET signal == generate_signal(symbol, fetched, gen.indicators,
                            gen.smc_analysis, gen.smc_signal, gen.hour, gen.weekday, ts)
         IN  IF signal = NoneVal
             THEN [outcome |-> "no_signal", signal |-> NoneVal, last_signals |-> ls]
             ELSE IF ~should_send_signal(signal, ls)
             THEN [outcome |-> "suppressed", signal |-> signal, last_signals |-> ls]
             ELSE IF success
             THEN [outcome |-> "sent", signal |-> signal,
                   last_signals |-> SetItem(ls, symbol, signal)]
             ELSE [outcome |-> "failed", signal |-> signal, last_signals |-> ls]


-----------------------------------------------------------------------------
(* What the collaborators can hand to the bot *)

\* fetch_market_data: None, the client's dict, or a frame
MarketData(kind, n, vol, last_close) ==
    [kind |-> kind, n |-> n, vol |-> vol, last_close |-> last_close]

FetchResults ==
    {NoneVal, MarketData("dict", 200, 10, 2000), MarketData("frame", 199, 10, 2000),
     MarketData("frame", 200, 10, 2000)}

\* calculate_indicators: None or the latest scalar values
Indicators(price, ema50, ema200, rsi, macd, macd_signal) ==
    [price |-> price, ema50 |-> ema50, ema200 |-> ema200, rsi |-> rsi,
     macd |-> macd, macd_signal |-> macd_signal]

BullishIndicators == Indicators(12, 11, 10, 50, 2, 1)
BearishIndicators == Indicators(8, 9, 10, 50, -2, -1)

\* analyze_smart_money_concepts: None or an analysis
SmcAnalysis == [kind |-> "analysis"]

\* calculate_smc_signal_strength: the dict of SmartMoneyConcepts (action,
\* confidence, signal_count, risk_quality), its zero-signal dict, or the dict
\* of SmartMoneyConceptsRender (direction, strength, confluence, ...)
ScorerResult(action, confidence, signal_count) ==
    [action |-> action, confidence |-> confidence, signal_count |-> signal_count,
     risk_quality |-> IF confidence > 800 THEN "HIGH"
                      ELSE IF confidence > 600 THEN "MEDIUM" ELSE "LOW"]

ScorerZero == [action |-> "HOLD", confidence |-> 0]

RenderScorerResult(direction, strength, confluence) ==
    [direction |-> direction, strength |-> strength, confluence |-> confluence,
     bullish_signals |-> IF direction = "BUY" THEN confluence ELSE 0,
     bearish_signals |-> IF direction = "SELL" THEN confluence ELSE 0]

Gen(indicators, smc_analysis, smc_signal, hour, weekday) ==
    [indicators |-> indicators, smc_analysis |-> smc_analysis,
     smc_signal |-> smc_signal, hour |-> hour, weekday |-> weekday]

\* the collaborators' results inside one generate_signal call
GenResults ==
    {Gen(NoneVal, SmcAnalysis, ScorerResult("BUY", 800, 2), 10, 2),
     Gen(BullishIndicators, NoneVal, ScorerResult("BUY", 800, 2), 10, 2),
     Gen(BullishIndicators, SmcAnalysis, ScorerResult("BUY", 800, 2), 10, 2),
     Gen(BearishIndicators, SmcAnalysis, ScorerResult("SELL", 800, 2), 10, 2),
     Gen(BearishIndicators, SmcAnalysis, ScorerResult("BUY", 800, 2), 10, 2),
     Gen(BullishIndicators, SmcAnalysis, ScorerResult("BUY", 800, 2), 8, 6),
     Gen(BullishIndicators, SmcAnalysis, ScorerZero, 10, 2),
     Gen(BullishIndicators, SmcAnalysis, RenderScorerResult("BUY", 900, 3), 10, 2)}

ClockValues == {0, 1, 3600, 3601}

\* iterations of the inter-cycle sleep loop (range(900) in the source)
SleepIterations == 2

\* signals the notifier accepts before it starts failing for good
MaxDeliveries == 1

NoOp == [symbol |-> "None", outcome |-> "none", signal |-> NoneVal, prev |-> <<>>]

-----------------------------------------------------------------------------
(* Initial states *)

BotIdle ==
    /\ running = FALSE
    /\ last_signals = <<>>
    /\ pc = "init"
    /\ idx = 0
    /\ sleep_left = 0
    /\ now = 0
    /\ last_op = NoOp
    /\ cycle_log = <<>>
    /\ stop_called = "no"
    /\ stop_seen = FALSE
    /\ after_stop = 0
    /\ deliveries = 0
    /\ first_failed = FALSE

GateIdle == gate_in = NoneVal /\ gate_out = [done |-> FALSE, result |-> FALSE]

BarsIdle ==
    bars = <<>> /\ swing_strength = 0 /\ fvg_threshold = 0 /\ smc_out = NoneVal

IndIdle == ind_in = NoneVal /\ ind_out = NoneVal

CallIdle == call_in = NoneVal /\ call_out = NoneVal

Init == BotIdle /\ GateIdle /\ BarsIdle /\ IndIdle /\ CallIdle

-----------------------------------------------------------------------------
(* TradingBot.start, run_cycle, stop: one action per step of the thread    *)

\* main.py start_trading_bot -> bot.start(): self.running = True
Start ==
    /\ pc = "init"
    /\ running' = TRUE
    /\ pc' = "startup"
    /\ UNCHANGED <<last_signals, idx, sleep_left, now, last_op, cycle_log,
                   stop_called, stop_seen, after_stop, deliveries, first_failed>>

\* the startup notification; its result is ignored
Startup ==
    /\ pc = "startup"
    /\ pc' = "while"
    /\ UNCHANGED <<running, last_signals, idx, sleep_left, now, last_op, cycle_log,
                   stop_called, stop_seen, after_stop, deliveries, first_failed>>

\* "while self.running:" and the entry of run_cycle
WhileHead ==
    /\ pc = "while"
    /\ IF running
       THEN /\ pc' = "for"
            /\ idx' = 1
            /\ cycle_log' = <<>>
            /\ first_failed' = FALSE
            /\ UNCHANGED stop_seen
       ELSE /\ pc' = "stopped"
            /\ stop_seen' = TRUE
            /\ UNCHANGED <<idx, cycle_log, first_failed>>
    /\ UNCHANGED <<running, last_signals, sleep_left, now, last_op, stop_called,
                   after_stop, deliveries>>

\* "if not self.running: break" at the head of the for loop
run_cycle_never_breaks(r) == FALSE

run_cycle_breaks(r) == ~r

\* "for symbol in self.symbols:"; leaving the loop ends run_cycle and enters
\* the inter-cycle sleep loop
ForHead ==
    /\ pc = "for"
    /\ IF idx > Len(SymbolOrder)
       THEN pc' = "sleep" /\ sleep_left' = SleepIterations /\ UNCHANGED stop_seen
       ELSE IF run_cycle_breaks(running)
       THEN pc' = "sleep" /\ sleep_left' = SleepIterations /\ stop_seen' = TRUE
       ELSE pc' = "process" /\ UNCHANGED <<sleep_left, stop_seen>>
    /\ UNCHANGED <<running, last_signals, idx, now, last_op, cycle_log, stop_called,
                   after_stop, deliveries, first_failed>>

\* self.process_symbol(symbol); t is what datetime.now() returns in it, never
\* earlier than the previous reading
ProcessSymbol ==
    /\ pc = "process"
    /\ \E fetched \in FetchResults, gen \in GenResults, t \in ClockValues,
          success \in (IF deliveries < MaxDeliveries THEN BOOLEAN ELSE {FALSE}) :
         LET symbol == SymbolOrder[idx]
             r == process_symbol(symbol, last_signals, fetched, gen, success, t)
         IN  /\ t >= now
             /\ now' = t
             /\ last_signals' = r.last_signals
             /\ last_op' = [symbol |-> symbol, outcome |-> r.outcome,
                            signal |-> r.signal, prev |-> last_signals]
             /\ cycle_log' = Append(cycle_log, symbol)
             /\ deliveries' = IF r.outcome = "sent" THEN deliveries + 1 ELSE deliveries
             /\ first_failed' = IF idx = 1
                                THEN r.outcome \in {"insufficient", "no_signal", "failed"}
                                ELSE first_failed
    /\ after_stop' = IF stop_called = "yes" THEN after_stop + 1 ELSE after_stop
    /\ pc' = "symbol_sleep"
    /\ UNCHANGED <<running, idx, sleep_left, stop_called, stop_seen>>

\* the for loop moves on to the next symbol whatever process_symbol did
next_index_abort_on_failure(i, outcome) ==
    IF outcome = "insufficient" THEN Len(SymbolOrder) + 1 ELSE i + 1

next_index(i, outcome) == i + 1

\* time.sleep(1) after each symbol, then the next symbol
SymbolSleep ==
    /\ pc = "symbol_sleep"
    /\ idx' = next_index(idx, last_op.outcome)
    /\ pc' = "for"
    /\ last_op' = NoOp
    /\ UNCHANGED <<running, last_signals, sleep_left, now, cycle_log, stop_called,
                   stop_seen, after_stop, deliveries, first_failed>>

\* "for _ in range(900): if not self.running: break; time.sleep(1)"
SleepLoop ==
    /\ pc = "sleep"
    /\ IF sleep_left = 0
       THEN pc' = "while" /\ UNCHANGED <<sleep_left, stop_seen>>
       ELSE IF ~running
       THEN pc' = "while" /\ stop_seen' = TRUE /\ UNCHANGED sleep_left
       ELSE sleep_left' = sleep_left - 1 /\ UNCHANGED <<pc, stop_seen>>
    /\ UNCHANGED <<running, last_signals, idx, now, last_op, cycle_log, stop_called,
                   after_stop, deliveries, first_failed>>

\* TradingBot.stop, called from another thread at any moment
Stop ==
    /\ pc # "stopped"
    /\ running' = FALSE
    /\ stop_called' = IF pc = "init"
                      THEN (IF stop_called = "no" THEN "early" ELSE stop_called)
                      ELSE "yes"
    /\ UNCHANGED <<last_signals, pc, idx, sleep_left, now, last_op, cycle_log,
                   stop_seen, after_stop, deliveries, first_failed>>

BotThread ==
    \/ Start \/ Startup \/ WhileHead \/ ForHead \/ ProcessSymbol \/ SymbolSleep
    \/ SleepLoop

Next ==
    \/ (Start /\ UNCHANGED <<gateVars, barVars, indVars, callVars>>)
    \/ (Startup /\ UNCHANGED <<gateVars, barVars, indVars, callVars>>)
    \/ (WhileHead /\ UNCHANGED <<gateVars, barVars, indVars, callVars>>)
    \/ (ForHead /\ UNCHANGED <<gateVars, barVars, indVars, callVars>>)
    \/ (ProcessSymbol /\ UNCHANGED <<gateVars, barVars, indVars, callVars>>)
    \/ (SymbolSleep /\ UNCHANGED <<gateVars, barVars, indVars, callVars>>)
    \/ (SleepLoop /\ UNCHANGED <<gateVars, barVars, indVars, callVars>>)
    \/ (Stop /\ UNCHANGED <<gateVars, barVars, indVars, callVars>>)

Spec == Init /\ [][Next]_vars

\* the thread that runs start() is scheduled and every call it makes is
\* bounded (requests timeouts, finite loops), so it always takes its next step
FairSpec == Spec /\ WF_vars(BotThread /\ UNCHANGED <<gateVars, barVars, indVars, callVars>>)


-----------------------------------------------------------------------------
(* Claims about the dedup state and the control loop *)

IsPrefix(a, b) == Len(a) <= Len(b) /\ \A i \in 1..Len(a) : a[i] = b[i]

\* should_send_signal was evaluated by the last process_symbol call
Decided == last_op.outcome \in {"suppressed", "sent", "failed"}

\* C1: a candidate for X is suppressed exactly when the entry retained for X
\* has the same direction and is less than 3600 seconds older; a candidate of
\* the opposite direction, or for an instrument with no entry, is accepted.
C1_DedupDecision ==
    Decided =>
        LET X == last_op.symbol
            candidate == last_op.signal
            retained == last_op.prev
        IN  (last_op.outcome = "suppressed")
            <=> /\ X \in DOMAIN retained
                /\ retained[X].direction = candidate.direction
                /\ candidate.timestamp - retained[X].timestamp < 3600

C1_Witness ==
    /\ last_op.outcome = "suppressed"
    /\ last_op.signal.timestamp - last_op.prev[last_op.symbol].timestamp = 3599

\* C2: process_symbol changes last_signals only by storing the candidate it
\* has just delivered successfully; every other outcome leaves it unchanged.
C2_WriteOnlyOnDelivery ==
    [][last_signals' # last_signals
         => /\ pc = "process"
            /\ last_op'.outcome = "sent"
            /\ last_signals' = SetItem(last_signals, last_op'.symbol, last_op'.signal)]_vars

C2_Witness ==
    /\ last_op.outcome = "failed"
    /\ last_signals = last_op.prev
    /\ last_op.symbol \notin DOMAIN last_signals

\* C6: the symbols processed in a cycle are a prefix of the configured order,
\* each once, and a cycle that ends with the running flag still true has
\* processed all of them, whatever happened to each.
C6_FailureIsolation ==
    /\ IsPrefix(cycle_log, SymbolOrder)
    /\ (pc = "sleep" /\ running) => cycle_log = SymbolOrder

C6_Witness ==
    /\ pc = "sleep"
    /\ running
    /\ first_failed
    /\ cycle_log = SymbolOrder

\* C7: once stop() has been called on a started bot, at most the one
\* process_symbol call in flight completes, nothing is started after the loop
\* has read the flag as False, and the loop terminates.
C7_Cancellation ==
    /\ [](after_stop <= 1)
    /\ [](stop_seen => pc \in {"sleep", "while", "stopped"})
    /\ ((stop_called = "yes") ~> (pc = "stopped"))

C7_Witness ==
    /\ stop_called = "yes"
    /\ after_stop = 1
    /\ pc = "stopped"


-----------------------------------------------------------------------------
(* The quality gate called on its own: is_high_quality_setup applied to one *)
(* candidate drawn from every shape its arguments take.                     *)

GateScorerResults ==
    {ScorerResult(a, c, k) :
        a \in {"BUY", "SELL", "HOLD"}, c \in {749, 750, 799, 800}, k \in {1, 2}}
    \cup {ScorerZero, RenderScorerResult("BUY", 900, 3)}

GateVotes ==
    {<<>>, <<"BUY">>, <<"SELL">>, <<"BUY", "SELL">>, <<"BUY", "BUY", "SELL">>,
     <<"BUY", "SELL", "SELL">>, <<"BUY", "BUY", "BUY">>, <<"SELL", "SELL", "SELL">>}

GateData ==
    {MarketData("dict", 200, v, 2000) : v \in {10, 60}}
    \cup {MarketData("frame", 200, v, c) :
            v \in {15, 16, 26, 51}, c \in {1799, 1800, 2200, 2201}}

GateInputs ==
    [smc_signal : GateScorerResults, traditional_signals : GateVotes,
     symbol : DOMAIN symbols, data : GateData, hour : {7, 8, 9, 13, 14},
     weekday : {4, 5}]

GateInit ==
    /\ BotIdle /\ BarsIdle /\ IndIdle /\ CallIdle
    /\ gate_in \in GateInputs
    /\ gate_out = [done |-> FALSE, result |-> FALSE]

GateApply ==
    /\ ~gate_out.done
    /\ gate_out' = [done |-> TRUE,
                    result |-> is_high_quality_setup(gate_in.smc_signal,
                                   gate_in.traditional_signals, gate_in.symbol,
                                   gate_in.data, gate_in.hour, gate_in.weekday)]
    /\ UNCHANGED <<gate_in, botVars, barVars, indVars, callVars>>

GateNext == GateApply

GateSpec == GateInit /\ [][GateNext]_vars

GateAccepted == gate_out.done /\ gate_out.result

\* what the gate is meant to require of a candidate
ConfidenceOk == Get(gate_in.smc_signal, "confidence", 0) >= 750
SignalCountOk == Get(gate_in.smc_signal, "signal_count", 0) >= 2
VotesOk ==
    LET action == Get(gate_in.smc_signal, "action", "None")
        buys == Count(gate_in.traditional_signals, "BUY")
        sells == Count(gate_in.traditional_signals, "SELL")
    IN  /\ action = "BUY" => buys >= sells
        /\ action = "SELL" => sells >= buys
VolatilityCeiling ==
    LET a == symbols[gate_in.symbol].asset_type IN
    IF a = "forex" THEN 15 ELSE IF a = "commodity" THEN 25 ELSE 50
VolatilityOk == gate_in.data.vol <= VolatilityCeiling
PolicyOk ==
    LET a == symbols[gate_in.symbol].asset_type IN
    /\ a = "forex" => gate_in.hour \notin {8, 9, 13, 14}
    /\ a = "crypto" =>
          (gate_in.weekday >= 5 => Get(gate_in.smc_signal, "confidence", 0) >= 800)
    /\ a = "commodity" => (gate_in.data.last_close >= 1800
                           /\ gate_in.data.last_close <= 2200)

\* C3: the gate returns True only if confidence >= 0.75, signalCount >= 2, the
\* votes for the confluence direction are not outnumbered, the trailing
\* volatility does not exceed the asset-class ceiling and the asset policy
\* passes.
C3_GateAcceptsOnlyIfAllHold ==
    GateAccepted =>
        ConfidenceOk /\ SignalCountOk /\ VotesOk /\ VolatilityOk /\ PolicyOk

\* what does hold: C3 for candidates whose data is a DataFrame
GateOnFrames ==
    (GateAccepted /\ gate_in.data.kind = "frame") =>
        ConfidenceOk /\ SignalCountOk /\ VotesOk /\ VolatilityOk /\ PolicyOk

\* C5: a candidate whose trailing volatility exceeds the ceiling of its asset
\* class is rejected whatever its confidence, signal count and votes.
C5_VolatilityRejects == ~VolatilityOk => ~GateAccepted


-----------------------------------------------------------------------------
(* Bar series and SmartMoneyConceptsRender (smart_money_concepts_render.py) *)
(* A bar is [open, high, low, close, volume]; bars[i + 1] is the bar with   *)
(* Python index i and its timestamp is i (timestamps are strictly           *)
(* increasing).  SmartMoneyConcepts.identify_swing_points                   *)
(* (smart_money_concepts.py 23-71) is the same loop on a DataFrame.         *)

Bar(open, high, low, close, volume) ==
    [open |-> open, high |-> high, low |-> low, close |-> close, volume |-> volume]

\* list[i] with a Python index i >= 0
At(list, i) == list[i + 1]

Highs(market_data)   == [i \in 1..Len(market_data) |-> market_data[i].high]
Lows(market_data)    == [i \in 1..Len(market_data) |-> market_data[i].low]
Closes(market_data)  == [i \in 1..Len(market_data) |-> market_data[i].close]
Volumes(market_data) == [i \in 1..Len(market_data) |-> market_data[i].volume]

DefaultSwingStrength == 5
DefaultFvgThreshold == 1

\* faulty variants: a tie no longer disqualifies; only the bars before i are read
is_swing_high_ties_allowed(highs, w, i) ==
    \A j \in (i - w)..(i + w) : j = i \/ ~(At(highs, j) > At(highs, i))

is_swing_high_left_only(highs, w, i) ==
    \A j \in (i - w)..i : j = i \/ ~(At(highs, j) >= At(highs, i))

\* lines 33-37: no other bar of the window has a high >= highs[i]
is_swing_high(highs, w, i) ==
    \A j \in (i - w)..(i + w) : j = i \/ ~(At(highs, j) >= At(highs, i))

\* lines 48-52: no other bar of the window has a low <= lows[i]
is_swing_low(lows, w, i) ==
    \A j \in (i - w)..(i + w) : j = i \/ ~(At(lows, j) <= At(lows, i))

SwingPoint(i, price, type) ==
    [index |-> i, timestamp |-> i, price |-> price, type |-> type]

\* A for loop that only appends: what the iterations lo .. hi-1 append, in
\* order, is what lo .. mid-1 append followed by what mid .. hi-1 append
\* (the range is halved to keep the evaluation shallow on long series).

\* lines 33-45: the swing highs appended by the iterations lo .. hi-1
RECURSIVE swing_highs_in(_, _, _, _)
swing_highs_in(highs, w, lo, hi) ==
    IF lo >= hi THEN <<>>
    ELSE IF hi = lo + 1
    THEN IF is_swing_high(highs, w, lo)
         THEN <<SwingPoint(lo, At(highs, lo), "swing_high")>>
         ELSE <<>>
    ELSE LET mid == (lo + hi) \div 2
         IN  swing_highs_in(highs, w, lo, mid) \o swing_highs_in(highs, w, mid, hi)

\* lines 47-60: the swing lows appended by the iterations lo .. hi-1
RECURSIVE swing_lows_in(_, _, _, _)
swing_lows_in(lows, w, lo, hi) ==
    IF lo >= hi THEN <<>>
    ELSE IF hi = lo + 1
    THEN IF is_swing_low(lows, w, lo)
         THEN <<SwingPoint(lo, At(lows, lo), "swing_low")>>
         ELSE <<>>
    ELSE LET mid == (lo + hi) \div 2
         IN  swing_lows_in(lows, w, lo, mid) \o swing_lows_in(lows, w, mid, hi)

\* for i in range(w, len(highs) - w)
identify_swing_points(market_data, w) ==
    [swing_highs |-> swing_highs_in(Highs(market_data), w, w, Len(market_data) - w),
     swing_lows  |-> swing_lows_in(Lows(market_data), w, w, Len(market_data) - w)]

Last(list) == list[Len(list)]

BosConfidenceRender == 700
MssConfidenceRender == 800

detect_break_of_structure(market_data, swing_points) ==
    IF market_data = <<>> THEN <<>>          \* close[-1] raises; except: []
    ELSE
    LET swing_highs == swing_points.swing_highs
        swing_lows  == swing_points.swing_lows
        current_price == Last(market_data).close
        bullish ==
            IF Len(swing_highs) >= 2 /\ current_price > Last(swing_highs).price
            THEN <<[type |-> "BOS_BULLISH", broken_level |-> Last(swing_highs).price,
                    current_price |-> current_price,
                    confidence |-> BosConfidenceRender]>>
            ELSE <<>>
        bearish ==
            IF Len(swing_lows) >= 2 /\ current_price < Last(swing_lows).price
            THEN <<[type |-> "BOS_BEARISH", broken_level |-> Last(swing_lows).price,
                    current_price |-> current_price,
                    confidence |-> BosConfidenceRender]>>
            ELSE <<>>
    IN  bullish \o bearish

detect_market_structure_shift(market_data, swing_points) ==
    IF market_data = <<>> THEN <<>>
    ELSE
    LET swing_highs == swing_points.swing_highs
        swing_lows  == swing_points.swing_lows
        current_price == Last(market_data).close
    IN  IF Len(swing_highs) >= 2 /\ Len(swing_lows) >= 2
        THEN LET latest_high == Last(swing_highs)
                 latest_low  == Last(swing_lows)
             IN  IF latest_high.timestamp > latest_low.timestamp
                    /\ current_price < latest_low.price
                 THEN <<[type |-> "MSS_BEARISH", broken_level |-> latest_low.price,
                         current_price |-> current_price,
                         confidence |-> MssConfidenceRender]>>
                 ELSE IF latest_low.timestamp > latest_high.timestamp
                         /\ current_price > latest_high.price
                 THEN <<[type |-> "MSS_BULLISH", broken_level |-> latest_high.price,
                         current_price |-> current_price,
                         confidence |-> MssConfidenceRender]>>
                 ELSE <<>>
        ELSE <<>>


FvgConfidenceBase == 500
FvgConfidencePerUnit == 100
FvgConfidenceCap == 900
FvgConfidence == 700

\* faulty variant: a gap equal to the threshold registers
fvg_at_inclusive(highs, lows, threshold, i) ==
    IF At(lows, i) > At(highs, i - 2)
    THEN LET gap_size == At(lows, i) - At(highs, i - 2) IN
         IF gap_size >= threshold
         THEN <<[type |-> "FVG_BULLISH", gap_low |-> At(highs, i - 2),
                 gap_high |-> At(lows, i), gap_size |-> gap_size, index |-> i,
                 confidence |-> Min2(FvgConfidenceCap,
                     FvgConfidenceBase + FvgConfidencePerUnit * gap_size)]>>
         ELSE <<>>
    ELSE IF At(highs, i) < At(lows, i - 2)
    THEN LET gap_size == At(lows, i - 2) - At(highs, i) IN
         IF gap_size >= threshold
         THEN <<[type |-> "FVG_BEARISH", gap_low |-> At(highs, i),
                 gap_high |-> At(lows, i - 2), gap_size |-> gap_size, index |-> i,
                 confidence |-> Min2(FvgConfidenceCap,
                     FvgConfidenceBase + FvgConfidencePerUnit * gap_size)]>>
         ELSE <<>>
    ELSE <<>>

\* smart_money_concepts_render.py 156-180: the body of the loop at index i;
\* min(0.9, 0.5 + gap_size * 1000) with gap_size in units of 0.0001
fvg_at(highs, lows, threshold, i) ==
    IF At(lows, i) > At(highs, i - 2)
    THEN LET gap_size == At(lows, i) - At(highs, i - 2) IN
         IF gap_size > threshold
         THEN <<[type |-> "FVG_BULLISH", gap_low |-> At(highs, i - 2),
                 gap_high |-> At(lows, i), gap_size |-> gap_size, index |-> i,
                 confidence |-> Min2(FvgConfidenceCap,
                     FvgConfidenceBase + FvgConfidencePerUnit * gap_size)]>>
         ELSE <<>>
    ELSE IF At(highs, i) < At(lows, i - 2)
    THEN LET gap_size == At(lows, i - 2) - At(highs, i) IN
         IF gap_size > threshold
         THEN <<[type |-> "FVG_BEARISH", gap_low |-> At(highs, i),
                 gap_high |-> At(lows, i - 2), gap_size |-> gap_size, index |-> i,
                 confidence |-> Min2(FvgConfidenceCap,
                     FvgConfidenceBase + FvgConfidencePerUnit * gap_size)]>>
         ELSE <<>>
    ELSE <<>>

RECURSIVE fvg_in(_, _, _, _, _)
fvg_in(highs, lows, threshold, lo, hi) ==
    IF lo >= hi THEN <<>>
    ELSE IF hi = lo + 1 THEN fvg_at(highs, lows, threshold, lo)
    ELSE LET mid == (lo + hi) \div 2
         IN  fvg_in(highs, lows, threshold, lo, mid)
             \o fvg_in(highs, lows, threshold, mid, hi)

\* SmartMoneyConceptsRender.detect_fair_value_gaps: for i in range(2, len(highs))
detect_fair_value_gaps(market_data, threshold) ==
    fvg_in(Highs(market_data), Lows(market_data), threshold, 2, Len(market_data))

\* smart_money_concepts.py 170-208: the body of the loop at index i, two
\* independent ifs
fvg_at_pd(highs, lows, threshold, i) ==
    LET candle1_high == At(highs, i - 2)
        candle3_low  == At(lows, i)
        candle1_low  == At(lows, i - 2)
        candle3_high == At(highs, i)
        bullish ==
            IF candle1_high < candle3_low /\ candle3_low - candle1_high > threshold
            THEN <<[type |-> "FVG_BULLISH", direction |-> "BUY",
                    gap_top |-> candle3_low, gap_bottom |-> candle1_high,
                    gap_size |-> candle3_low - candle1_high, index |-> i,
                    confidence |-> FvgConfidence]>>
            ELSE <<>>
        bearish ==
            IF candle1_low > candle3_high /\ candle1_low - candle3_high > threshold
            THEN <<[type |-> "FVG_BEARISH", direction |-> "SELL",
                    gap_top |-> candle1_low, gap_bottom |-> candle3_high,
                    gap_size |-> candle1_low - candle3_high, index |-> i,
                    confidence |-> FvgConfidence]>>
            ELSE <<>>
    IN  bullish \o bearish

RECURSIVE fvg_in_pd(_, _, _, _, _)
fvg_in_pd(highs, lows, threshold, lo, hi) ==
    IF lo >= hi THEN <<>>
    ELSE IF hi = lo + 1 THEN fvg_at_pd(highs, lows, threshold, lo)
    ELSE LET mid == (lo + hi) \div 2
         IN  fvg_in_pd(highs, lows, threshold, lo, mid)
             \o fvg_in_pd(highs, lows, threshold, mid, hi)

FvgRetained == 5

\* list[-k:]
LastK(list, k) ==
    IF Len(list) <= k THEN list ELSE SubSeq(list, Len(list) - k + 1, Len(list))

\* SmartMoneyConcepts.detect_fair_value_gaps: returns fvg_signals[-5:]
detect_fair_value_gaps_pd(data, threshold) ==
    LastK(fvg_in_pd(Highs(data), Lows(data), threshold, 2, Len(data)), FvgRetained)


RECURSIVE SumSeq(_)
SumSeq(list) == IF list = <<>> THEN 0 ELSE Head(list) + SumSeq(Tail(list))

OrderBlockFrom == 10
OrderBlockTail == 5
OrderBlockConfidence == 600

\* smart_money_concepts_render.py 199-226: the body of the loop at index i.
\* avg_volume = sum(volumes[i-10:i]) / 10 and the test
\* current_volume > avg_volume * 1.5 are kept exact by comparing
\* 20 * current_volume with 3 * sum; when volumes[i] is 0 both avg_volume
\* and current_volume are 1 and the test fails.
order_block_at(market_data, i) ==
    LET closes == Closes(market_data)
        volumes == Volumes(market_data)
        window_sum == SumSeq(SubSeq(volumes, i - 10 + 1, i))
        significant == At(volumes, i) > 0 /\ 20 * At(volumes, i) > 3 * window_sum
    IN  IF significant /\ At(closes, i) > At(closes, i - 1)
           /\ At(closes, i + 1) > At(closes, i)
        THEN <<[type |-> "ORDER_BLOCK_BULLISH", zone_low |-> market_data[i + 1].low,
                zone_high |-> market_data[i + 1].high, volume_confirmation |-> TRUE,
                confidence |-> OrderBlockConfidence]>>
        ELSE IF significant /\ At(closes, i) < At(closes, i - 1)
                /\ At(closes, i + 1) < At(closes, i)
        THEN <<[type |-> "ORDER_BLOCK_BEARISH", zone_low |-> market_data[i + 1].low,
                zone_high |-> market_data[i + 1].high, volume_confirmation |-> TRUE,
                confidence |-> OrderBlockConfidence]>>
        ELSE <<>>

RECURSIVE order_blocks_in(_, _, _)
order_blocks_in(market_data, lo, hi) ==
    IF lo >= hi THEN <<>>
    ELSE IF hi = lo + 1 THEN order_block_at(market_data, lo)
    ELSE LET mid == (lo + hi) \div 2
         IN  order_blocks_in(market_data, lo, mid) \o order_blocks_in(market_data, mid, hi)

\* for i in range(10, len(closes) - 5)
detect_order_blocks(market_data) ==
    order_blocks_in(market_data, OrderBlockFrom, Len(market_data) - OrderBlockTail)

MinSmcBars == 50
SmcConfidenceBase == 300
SmcConfidencePerPattern == 150
SmcConfidenceCap == 900

analyze_smart_money_concepts(market_data, w, threshold) ==
    IF Len(market_data) < MinSmcBars THEN NoneVal
    ELSE
    LET swing_points == identify_swing_points(market_data, w)
        bos == detect_break_of_structure(market_data, swing_points)
        mss == detect_market_structure_shift(market_data, swing_points)
        fvg == detect_fair_value_gaps(market_data, threshold)
        obs == detect_order_blocks(market_data)
        smc_patterns == Len(bos) + Len(mss) + Len(fvg) + Len(obs)
    IN  [kind |-> "smc_data",
         swing_points |-> swing_points,
         bos_signals |-> bos,
         mss_signals |-> mss,
         fvg_signals |-> fvg,
         order_blocks |-> obs,
         smc_patterns_count |-> smc_patterns,
         smc_confidence |-> Min2(SmcConfidenceCap,
                                 SmcConfidenceBase + SmcConfidencePerPattern * smc_patterns),
         has_smc_confluence |-> smc_patterns >= 2]

\* the types and confidences of a list of pattern records
Types(list) == [i \in 1..Len(list) |-> list[i].type]
Confidences(list) == [i \in 1..Len(list) |-> list[i].confidence]

StrengthCap == 950

\* SmartMoneyConceptsRender.calculate_smc_signal_strength.  The quotient
\* total_confidence / total_signals is rounded down to a whole thousandth,
\* which does not change its comparison with a whole number of thousandths.
calculate_smc_signal_strength(smc_analysis) ==
    IF smc_analysis = NoneVal
    THEN [direction |-> "NEUTRAL", strength |-> 0, confluence |-> 0]
    ELSE
    LET bullish_signals ==
              Count(Types(smc_analysis.bos_signals), "BOS_BULLISH")
            + Count(Types(smc_analysis.mss_signals), "MSS_BULLISH")
            + Count(Types(smc_analysis.fvg_signals), "FVG_BULLISH")
            + Count(Types(smc_analysis.order_blocks), "ORDER_BLOCK_BULLISH")
        total_signals == Len(smc_analysis.bos_signals) + Len(smc_analysis.mss_signals)
                         + Len(smc_analysis.fvg_signals) + Len(smc_analysis.order_blocks)
        bearish_signals == total_signals - bullish_signals
        total_confidence ==
              SumSeq(Confidences(smc_analysis.bos_signals))
            + SumSeq(Confidences(smc_analysis.mss_signals))
            + SumSeq(Confidences(smc_analysis.fvg_signals))
            + SumSeq(Confidences(smc_analysis.order_blocks))
        direction == IF total_signals = 0 THEN "NEUTRAL"
                     ELSE IF bullish_signals > bearish_signals THEN "BUY"
                     ELSE IF bearish_signals > bullish_signals THEN "SELL"
                     ELSE "NEUTRAL"
        strength == IF total_signals = 0 THEN 0
                    ELSE IF bullish_signals # bearish_signals
                    THEN Min2(StrengthCap, total_confidence \div total_signals)
                    ELSE total_confidence \div total_signals
    IN  [direction |-> direction, strength |-> strength,
         confluence |-> total_signals, bullish_signals |-> bullish_signals,
         bearish_signals |-> bearish_signals]

\* what the analysers return for one bar series: the swing points (both
\* classes), the gaps of each class, and the render analysis with its score
Analyse(market_data, w, threshold) ==
    LET smc_analysis == analyze_smart_money_concepts(market_data, w, threshold) IN
    [swing_points |-> identify_swing_points(market_data, w),
     bos_signals |-> detect_break_of_structure(market_data,
                         identify_swing_points(market_data, w)),
     fvg_signals |-> detect_fair_value_gaps(market_data, threshold),
     fvg_signals_pd |-> detect_fair_value_gaps_pd(market_data, threshold),
     smc_analysis |-> smc_analysis,
     smc_signal |-> calculate_smc_signal_strength(smc_analysis)]


-----------------------------------------------------------------------------
(* Swing detection on every short series: bars arrive one at a time and the *)
(* analysers are run on the series after each.  The half-width is the       *)
(* analyser's own (5) or a narrower one, which makes every arrangement of   *)
(* a window fit in a short series.                                          *)

MaxSwingBars == 7
MaxWideBars == 12

SwingStrengths == {1, 2, DefaultSwingStrength}

SwingShapes(w) ==
    IF w = DefaultSwingStrength
    THEN {Bar(2, 3, 2, 3, 1), Bar(1, 2, 1, 2, 1)}
    ELSE {Bar(l, h, l, h, 1) : h \in {2, 3}, l \in {1, 2}}

SwingInit ==
    /\ BotIdle /\ GateIdle /\ IndIdle /\ CallIdle
    /\ bars = <<>>
    /\ swing_strength \in SwingStrengths
    /\ fvg_threshold = DefaultFvgThreshold
    /\ smc_out = Analyse(bars, swing_strength, fvg_threshold)

SwingAppend ==
    /\ Len(bars) < (IF swing_strength = DefaultSwingStrength
                    THEN MaxWideBars ELSE MaxSwingBars)
    /\ \E bar \in SwingShapes(swing_strength) :
          /\ bars' = Append(bars, bar)
          /\ smc_out' = Analyse(bars', swing_strength, fvg_threshold)
    /\ UNCHANGED <<swing_strength, fvg_threshold, botVars, gateVars, indVars, callVars>>

SwingNext == SwingAppend

SwingSpec == SwingInit /\ [][SwingNext]_vars

Indices(points) == {points[k].index : k \in 1..Len(points)}

StrictlyIncreasing(points) ==
    \A k \in 1..(Len(points) - 1) : points[k].index < points[k + 1].index

\* the interior indices whose value is a strict extremum of its window
StrictHighs(highs, w) ==
    {i \in 0..(Len(highs) - 1) :
        /\ w <= i /\ i < Len(highs) - w
        /\ \A j \in (i - w)..(i + w) : j # i => At(highs, i) > At(highs, j)}

StrictLows(lows, w) ==
    {i \in 0..(Len(lows) - 1) :
        /\ w <= i /\ i < Len(lows) - w
        /\ \A j \in (i - w)..(i + w) : j # i => At(lows, i) < At(lows, j)}

\* C9: the swing highs returned are exactly the indices i, w <= i < n - w,
\* whose high is strictly greater than every other high of [i-w, i+w], each
\* once and in increasing order, carrying that high as price; symmetrically
\* the swing lows; no index within w of either end is returned.
C9_SwingPointCorrectness ==
    LET swing_highs == smc_out.swing_points.swing_highs
        swing_lows  == smc_out.swing_points.swing_lows
        n == Len(bars)
        w == swing_strength
    IN  /\ Indices(swing_highs) = StrictHighs(Highs(bars), w)
        /\ Indices(swing_lows) = StrictLows(Lows(bars), w)
        /\ StrictlyIncreasing(swing_highs)
        /\ StrictlyIncreasing(swing_lows)
        /\ \A k \in 1..Len(swing_highs) :
              /\ swing_highs[k].price = At(Highs(bars), swing_highs[k].index)
              /\ swing_highs[k].type = "swing_high"
        /\ \A k \in 1..Len(swing_lows) :
              /\ swing_lows[k].price = At(Lows(bars), swing_lows[k].index)
              /\ swing_lows[k].type = "swing_low"
        /\ \A i \in Indices(swing_highs) \cup Indices(swing_lows) :
              w <= i /\ i < n - w

\* a series with two swing highs and a swing low, and an interior bar whose
\* high is matched, but not exceeded, in its window and is not returned
C9_Witness ==
    LET swing_highs == smc_out.swing_points.swing_highs
        swing_lows  == smc_out.swing_points.swing_lows
        highs == Highs(bars)
        w == swing_strength
    IN  /\ Len(swing_highs) >= 2
        /\ Len(swing_lows) >= 1
        /\ \E i \in w..(Len(bars) - w - 1) :
              /\ \A j \in (i - w)..(i + w) : At(highs, j) <= At(highs, i)
              /\ \E j \in (i - w)..(i + w) : j # i /\ At(highs, j) = At(highs, i)
              /\ i \notin Indices(swing_highs)

\* the same at the analyser's own half-width
C9_WitnessWide ==
    /\ swing_strength = DefaultSwingStrength
    /\ Len(smc_out.swing_points.swing_highs) >= 1


-----------------------------------------------------------------------------
(* Fair value gaps of a forex series (threshold 0.0001): each bar is one    *)
(* unit tall and opens 1 or 3 units above, or 3 below, the previous one,    *)
(* so three-bar gaps equal to the threshold (1) and above it occur both     *)
(* ways.                                                                    *)

MaxFvgBars == 9
BasePrice == 11000

FvgSteps == {1, 3, -3}

FvgInit ==
    /\ BotIdle /\ GateIdle /\ IndIdle /\ CallIdle
    /\ bars = <<>>
    /\ swing_strength = DefaultSwingStrength
    /\ fvg_threshold = DefaultFvgThreshold
    /\ smc_out = Analyse(bars, swing_strength, fvg_threshold)

FvgAppend ==
    /\ Len(bars) < MaxFvgBars
    /\ \E step \in FvgSteps :
          LET low == IF bars = <<>> THEN BasePrice ELSE Last(bars).low + step
          IN  /\ bars' = Append(bars, Bar(low, low + 1, low, low + 1, 1))
              /\ smc_out' = Analyse(bars', swing_strength, fvg_threshold)
    /\ UNCHANGED <<swing_strength, fvg_threshold, botVars, gateVars, indVars, callVars>>

FvgNext == FvgAppend

FvgSpec == FvgInit /\ [][FvgNext]_vars

BullishGap(i) == At(Lows(bars), i) - At(Highs(bars), i - 2)
BearishGap(i) == At(Lows(bars), i - 2) - At(Highs(bars), i)

GapIndices == 2..(Len(bars) - 1)

\* the entries of a detector's result that carry index i
FvgAt(signals, i) == {k \in 1..Len(signals) : signals[k].index = i}

\* exactly one entry at index i, of the given type, confidence <= 0.9
RegistersOne(signals, i, type) ==
    /\ Cardinality(FvgAt(signals, i)) = 1
    /\ \A k \in FvgAt(signals, i) :
          signals[k].type = type /\ signals[k].confidence <= 900

\* the boundary rule for one detector's result
FvgBoundary(signals) ==
    \A i \in GapIndices :
        /\ (BullishGap(i) = fvg_threshold \/ BearishGap(i) = fvg_threshold)
              => FvgAt(signals, i) = {}
        /\ BullishGap(i) > fvg_threshold => RegistersOne(signals, i, "FVG_BULLISH")
        /\ BearishGap(i) > fvg_threshold => RegistersOne(signals, i, "FVG_BEARISH")

\* C10 as stated: both detectors register every gap above the threshold at
\* its index and none that equals it.
C10_FvgBoundary == FvgBoundary(smc_out.fvg_signals) /\ FvgBoundary(smc_out.fvg_signals_pd)

\* the indices after i whose gap is above the threshold
LaterGaps(i) ==
    {k \in GapIndices :
        k > i /\ (BullishGap(k) > fvg_threshold \/ BearishGap(k) > fvg_threshold)}

\* C10 (amended): a gap equal to the threshold registers with neither
\* detector; a gap above it registers exactly one FVG at its index, in the
\* matching direction and with confidence <= 0.9, with the render detector
\* always and with the DataFrame detector when fewer than five later indices
\* have a gap above the threshold (its result is the last five entries).
C10_FvgBoundaryRetained ==
    /\ FvgBoundary(smc_out.fvg_signals)
    /\ \A i \in GapIndices :
        /\ (BullishGap(i) = fvg_threshold \/ BearishGap(i) = fvg_threshold)
              => FvgAt(smc_out.fvg_signals_pd, i) = {}
        /\ (BullishGap(i) > fvg_threshold /\ Cardinality(LaterGaps(i)) < FvgRetained)
              => RegistersOne(smc_out.fvg_signals_pd, i, "FVG_BULLISH")
        /\ (BearishGap(i) > fvg_threshold /\ Cardinality(LaterGaps(i)) < FvgRetained)
              => RegistersOne(smc_out.fvg_signals_pd, i, "FVG_BEARISH")
        /\ (BullishGap(i) > fvg_threshold \/ BearishGap(i) > fvg_threshold)
              /\ Cardinality(LaterGaps(i)) >= FvgRetained
              => FvgAt(smc_out.fvg_signals_pd, i) = {}

\* a series with a gap equal to the threshold, a bullish and a bearish gap
\* above it, and a gap the DataFrame detector has dropped
C10_Witness ==
    /\ \E i \in GapIndices : BullishGap(i) = fvg_threshold
    /\ \E i \in GapIndices :
          BullishGap(i) > fvg_threshold /\ FvgAt(smc_out.fvg_signals, i) # {}
    /\ \E i \in GapIndices :
          /\ BearishGap(i) > fvg_threshold \/ BullishGap(i) > fvg_threshold
          /\ FvgAt(smc_out.fvg_signals_pd, i) = {}


-----------------------------------------------------------------------------
(* Rising series of a forex instrument: every bar has the same shape and    *)
(* closes 1 or 2 units above the previous one, so close, high and low all   *)
(* increase strictly and no three-bar gap opens.  The series grows bar by   *)
(* bar from empty, or is one of the 260-bar series below.                   *)

MaxMonoBars == 12

MonoBar(close, volume) == Bar(close - 1, close + 2, close - 2, close, volume)

\* n bars rising by 1 a bar (by 2 on every third bar when uneven), the bar
\* with Python index spike traded at ten times the volume of the others
MonoSeries(n, uneven, spike) ==
    [i \in 1..n |->
        MonoBar(BasePrice + i + (IF uneven THEN i \div 3 ELSE 0),
                IF i - 1 = spike THEN 10 ELSE 1)]

LongMonoSeries ==
    {MonoSeries(260, uneven, spike) : uneven \in BOOLEAN, spike \in {-1, 100}}

MonoInit ==
    /\ BotIdle /\ GateIdle /\ IndIdle /\ CallIdle
    /\ bars \in {<<>>} \cup LongMonoSeries
    /\ swing_strength = DefaultSwingStrength
    /\ fvg_threshold = DefaultFvgThreshold
    /\ smc_out = Analyse(bars, swing_strength, fvg_threshold)

MonoAppend ==
    /\ Len(bars) < MaxMonoBars
    /\ \E step \in {1, 2} :
          LET close == IF bars = <<>> THEN BasePrice ELSE Last(bars).close + step
          IN  /\ bars' = Append(bars, MonoBar(close, 1))
              /\ smc_out' = Analyse(bars', swing_strength, fvg_threshold)
    /\ UNCHANGED <<swing_strength, fvg_threshold, botVars, gateVars, indVars, callVars>>

MonoNext == MonoAppend

MonoSpec == MonoInit /\ [][MonoNext]_vars

HasType(signals, type) == \E k \in 1..Len(signals) : signals[k].type = type

\* C4 as stated: the 260-bar rising series yields a BOS_BULLISH pattern and
\* the scorer returns BUY with confidence >= 0.7.
C4_EndToEndBullish ==
    Len(bars) = 260 =>
        /\ HasType(smc_out.bos_signals, "BOS_BULLISH")
        /\ smc_out.smc_signal.direction = "BUY"
        /\ smc_out.smc_signal.strength >= 700

\* C4 (amended): a rising series has no swing high and no swing low, so no
\* break of structure (and no structure shift or gap) is detected, and the
\* scorer never returns BUY with strength >= 0.7: it returns NEUTRAL with
\* strength 0, or BUY with strength 0.6 when volume-confirmed order blocks
\* are all that is found.
C4_RisingSeriesHasNoBreak ==
    /\ smc_out.swing_points.swing_highs = <<>>
    /\ smc_out.swing_points.swing_lows = <<>>
    /\ smc_out.bos_signals = <<>>
    /\ smc_out.fvg_signals = <<>>
    /\ Len(bars) >= MinSmcBars =>
          /\ smc_out.smc_analysis.bos_signals = <<>>
          /\ smc_out.smc_analysis.mss_signals = <<>>
    /\ ~(smc_out.smc_signal.direction = "BUY" /\ smc_out.smc_signal.strength >= 700)
    /\ \/ smc_out.smc_signal.direction = "NEUTRAL" /\ smc_out.smc_signal.strength = 0
       \/ /\ smc_out.smc_signal.direction = "BUY"
          /\ smc_out.smc_signal.strength = OrderBlockConfidence
          /\ smc_out.smc_analysis.order_blocks # <<>>

\* the 260-bar rising series, analysed, with the strongest score it gets
C4_Witness ==
    /\ Len(bars) = 260
    /\ smc_out.smc_analysis.order_blocks # <<>>
    /\ smc_out.smc_signal.direction = "BUY"
    /\ smc_out.smc_signal.strength = 600


-----------------------------------------------------------------------------
(* The indicator engines called on a close series: calculate_indicators of  *)
(* TechnicalAnalysisRender (technical_analysis_render.py) and of            *)
(* TechnicalAnalysis (technical_analysis.py).  What decides between None    *)
(* and a dictionary is the length of each series and, with pandas, which    *)
(* rows dropna() keeps; the series computed are carried as their lengths,   *)
(* their values are not.                                                    *)

IsNone(x) == "kind" \in DOMAIN x /\ x.kind = "None"

PyList(n) == [kind |-> "list", len |-> n]

\* "not x" for x a list or None
Falsy(x) == IsNone(x) \/ x.len = 0

EmaFastPeriod == 50
EmaSlowPeriod == 200
RsiPeriod == 14
MacdFast == 12
MacdSlow == 26
MacdSignal == 9

\* TechnicalAnalysisRender.calculate_ema on a list of n prices
calculate_ema(n, period) == IF n < period THEN NoneVal ELSE PyList(n)

\* TechnicalAnalysisRender.calculate_rsi: one value for each i in
\* range(period, len(deltas)), len(deltas) = n - 1
calculate_rsi(n, period) ==
    IF n < period + 1 THEN NoneVal ELSE PyList((n - 1) - period)

\* TechnicalAnalysisRender.calculate_macd: <<macd_line, macd_signal, macd_histogram>>
calculate_macd(n) ==
    IF n < MacdSlow THEN <<NoneVal, NoneVal, NoneVal>>
    ELSE
    LET ema_fast == calculate_ema(n, MacdFast)
        ema_slow == calculate_ema(n, MacdSlow)
    IN  IF Falsy(ema_fast) \/ Falsy(ema_slow) THEN <<NoneVal, NoneVal, NoneVal>>
        ELSE
        LET macd_line == PyList(Min2(ema_slow.len, ema_fast.len))
            macd_signal == calculate_ema(macd_line.len, MacdSignal)
        IN  IF Falsy(macd_signal) THEN <<macd_line, NoneVal, NoneVal>>
            ELSE <<macd_line, macd_signal,
                   PyList(Min2(macd_signal.len, macd_line.len))>>

IndicatorMinCloses == 200

Returned(result, log) == [result |-> result, log |-> log]

\* faulty variant: a series of exactly 200 closes is refused as well
insufficient_data_inclusive(n) == n <= IndicatorMinCloses

\* the length guard of both engines: len(...) < 200
insufficient_data(n) == n < IndicatorMinCloses

\* TechnicalAnalysisRender.calculate_indicators.  market_data is None, or a
\* dict: a function from its keys, 'close' to the list of closes.
calculate_indicators(market_data) ==
    IF IsNone(market_data) \/ DOMAIN market_data = {}
    THEN Returned(NoneVal, "Insufficient data for technical analysis")
    ELSE IF "close" \notin DOMAIN market_data            \* KeyError, caught
    THEN Returned(NoneVal, "Error calculating technical indicators")
    ELSE IF insufficient_data(Len(market_data.close))
    THEN Returned(NoneVal, "Insufficient data for technical analysis")
    ELSE
    LET prices == market_data.close
        ema50  == calculate_ema(Len(prices), EmaFastPeriod)
        ema200 == calculate_ema(Len(prices), EmaSlowPeriod)
        rsi    == calculate_rsi(Len(prices), RsiPeriod)
        macd   == calculate_macd(Len(prices))
    IN  IF Falsy(ema50) \/ Falsy(ema200)
        THEN Returned(NoneVal, "Failed to calculate EMAs")
        ELSE IF Falsy(rsi)
        THEN Returned(NoneVal, "Failed to calculate RSI")
        ELSE IF Falsy(macd[1]) \/ Falsy(macd[2])
        THEN Returned(NoneVal, "Failed to calculate MACD")
        ELSE Returned([kind |-> "indicators", price |-> Last(prices),
                       ema50_series |-> ema50.len, ema200_series |-> ema200.len,
                       rsi_series |-> rsi.len, macd_series |-> macd[1].len],
                      "Calculated indicators")

\* the rows of the frame that dropna() keeps: those whose RSI is a number,
\* that is from row 13 on (rolling(14)) and with a price change among the 14
\* differences of the window, 0/0 being NaN (the difference of row 0 counts
\* as 0); the EMA and MACD columns have no NaN
ValidRows(closes) ==
    {k \in 0..(Len(closes) - 1) :
        /\ k >= RsiPeriod - 1
        /\ \E j \in (k - (RsiPeriod - 1))..k :
              j >= 1 /\ At(closes, j) # At(closes, j - 1)}

\* TechnicalAnalysis.calculate_indicators.  data is None or a DataFrame, a
\* record whose Close field is the column of closes.
calculate_indicators_pd(data) ==
    IF IsNone(data)                                       \* len(None) raises, caught
    THEN Returned(NoneVal, "Error calculating indicators")
    ELSE IF insufficient_data(Len(data.Close))
    THEN Returned(NoneVal, "Insufficient data for technical analysis")
    ELSE IF ValidRows(data.Close) = {}
    THEN Returned(NoneVal, "No valid data after indicator calculation")
    ELSE Returned([kind |-> "indicators", rows |-> Cardinality(ValidRows(data.Close))],
                  "Calculated indicators")

MaxCloses == 201

\* n closes: all equal, rising by one a bar, or falling by one a bar
CloseSeries(n, pattern) ==
    [i \in 1..n |-> IF pattern = "flat" THEN BasePrice
                    ELSE IF pattern = "up" THEN BasePrice + i
                    ELSE BasePrice - i]

ClosePatterns == {"flat", "up", "down"}

IndInputs ==
    {[impl |-> "render", data |-> d] :
        d \in {NoneVal, <<>>, [timestamps |-> <<>>]}
              \cup {[close |-> CloseSeries(n, p)] : n \in 0..MaxCloses, p \in ClosePatterns}}
    \cup
    {[impl |-> "pandas", data |-> d] :
        d \in {NoneVal}
              \cup {[Close |-> CloseSeries(n, p)] : n \in 0..MaxCloses, p \in ClosePatterns}}

IndInit ==
    /\ BotIdle /\ GateIdle /\ BarsIdle /\ CallIdle
    /\ ind_in \in IndInputs
    /\ ind_out = [done |-> FALSE, result |-> NoneVal, log |-> "none"]

IndApply ==
    /\ ~ind_out.done
    /\ LET r == IF ind_in.impl = "render" THEN calculate_indicators(ind_in.data)
                ELSE calculate_indicators_pd(ind_in.data)
       IN  ind_out' = [done |-> TRUE, result |-> r.result, log |-> r.log]
    /\ UNCHANGED <<ind_in, botVars, gateVars, barVars, callVars>>

IndNext == IndApply

IndSpec == IndInit /\ [][IndNext]_vars

\* the closes the engine was given (none when the data or the column is missing)
GivenCloses ==
    IF "close" \in DOMAIN ind_in.data THEN ind_in.data.close
    ELSE IF "Close" \in DOMAIN ind_in.data THEN ind_in.data.Close
    ELSE <<>>

\* C8: on fewer than 200 closes (or no data at all) calculate_indicators
\* returns None, never a dictionary of indicators; on 200 or more it does not
\* take the insufficient-data exit: with the render engine it returns the
\* dictionary, and the pandas engine returns None only when no row has a
\* defined RSI.
C8_InsufficientDataGuard ==
    ind_out.done =>
        /\ Len(GivenCloses) < 200 => IsNone(ind_out.result)
        /\ Len(GivenCloses) >= 200 =>
              /\ ind_out.log # "Insufficient data for technical analysis"
              /\ ind_in.impl = "render" => ind_out.result.kind = "indicators"
              /\ IsNone(ind_out.result) =>
                    ind_out.log = "No valid data after indicator calculation"

\* 199 closes are refused
C8_Witness ==
    /\ ind_out.done
    /\ Len(GivenCloses) = 199
    /\ IsNone(ind_out.result)
    /\ ind_out.log = "Insufficient data for technical analysis"

\* 200 closes are analysed
C8_WitnessEnough ==
    /\ ind_out.done
    /\ Len(GivenCloses) = 200
    /\ ind_out.result.kind = "indicators"


-----------------------------------------------------------------------------
(* The confluence scorer of SmartMoneyConcepts (smart_money_concepts.py     *)
(* 303-362).  Weighted confidences are integers in units of 0.0001          *)
(* (confidence in thousandths times weight in tenths), so the comparisons   *)
(* of avg_confidence with 0.7, 0.8 and 0.6 are exact; the confidence        *)
(* returned is avg_confidence rounded down to a whole thousandth.           *)

BosWeight == 10
MssWeight == 12
FvgWeight == 8
OrderBlockWeight == 9

ActionThreshold == 700
HighQuality == 800
MediumQuality == 600
FullConfidence == 1000

\* the patterns of a dict of the analysis, [] when the analysis (None, {})
\* has no such key
PatternsOf(smc_analysis, key) ==
    IF key \in DOMAIN smc_analysis THEN smc_analysis[key] ELSE <<>>

\* faulty variant: every gap and order block is counted
confirms_always(signals, signal) == TRUE

\* lines 324 and 331: len(signals) > 0 and signals[-1]['direction'] == signal['direction']
confirms(signals, signal) ==
    Len(signals) > 0 /\ Last(signals).direction = signal.direction

\* the entries of a list the loop counts
Confirming(signals, list) == SelectSeq(list, LAMBDA x : confirms(signals, x))

\* faulty variant: BUY and SELL already at avg_confidence = 0.7
primary_direction_inclusive(buys, sells, total, signal_count) ==
    IF buys > sells /\ total >= 10 * ActionThreshold * signal_count THEN "BUY"
    ELSE IF sells > buys /\ total >= 10 * ActionThreshold * signal_count THEN "SELL"
    ELSE "HOLD"

\* lines 345-350, avg_confidence = total / (10 * signal_count) thousandths
primary_direction(buys, sells, total, signal_count) ==
    IF buys > sells /\ total > 10 * ActionThreshold * signal_count THEN "BUY"
    ELSE IF sells > buys /\ total > 10 * ActionThreshold * signal_count THEN "SELL"
    ELSE "HOLD"

\* faulty variant: the average is returned as it is
clamp_confidence_missing(avg_confidence) == avg_confidence

\* line 354: min(avg_confidence, 1.0)
clamp_confidence(avg_confidence) == Min2(avg_confidence, FullConfidence)

Directions(list) == [i \in 1..Len(list) |-> list[i].direction]

calculate_smc_signal_strength_pd(smc_analysis) ==
    IF IsNone(smc_analysis)                    \* None.get raises, caught
    THEN [action |-> "HOLD", confidence |-> 0, signals |-> <<>>]
    ELSE
    LET bos == PatternsOf(smc_analysis, "bos_signals")
        mss == PatternsOf(smc_analysis, "mss_signals")
        signals == bos \o mss
        fvg == Confirming(signals, PatternsOf(smc_analysis, "fvg_signals"))
        obs == Confirming(signals, PatternsOf(smc_analysis, "order_blocks"))
        total == BosWeight * SumSeq(Confidences(bos))
                 + MssWeight * SumSeq(Confidences(mss))
                 + FvgWeight * SumSeq(Confidences(fvg))
                 + OrderBlockWeight * SumSeq(Confidences(obs))
        signal_count == Len(bos) + Len(mss) + Len(fvg) + Len(obs)
        buys == Count(Directions(signals), "BUY")
        sells == Count(Directions(signals), "SELL")
    IN  IF signal_count = 0
        THEN [action |-> "HOLD", confidence |-> 0, signals |-> <<>>]
        ELSE [action |-> primary_direction(buys, sells, total, signal_count),
              confidence |-> clamp_confidence(total \div (10 * signal_count)),
              signal_count |-> signal_count,
              signals |-> signals,
              risk_quality |->
                  IF total > 10 * HighQuality * signal_count THEN "HIGH"
                  ELSE IF total > 10 * MediumQuality * signal_count THEN "MEDIUM"
                  ELSE "LOW"]


-----------------------------------------------------------------------------
(* The scorers called on their own, on every combination of patterns the    *)
(* detectors of their class return (up to a number of gaps and order        *)
(* blocks), followed by calculate_overall_confidence.                       *)

BosConfidence == 800
MssConfidence == 850
OrderBlockConfidencePd == 750

MaxFvgSignals == 3
MaxOrderBlocks == 2

SeqsUpTo(S, n) == UNION {[1..k -> S] : k \in 0..n}

\* a pattern dict of SmartMoneyConcepts
PdPattern(type, direction, confidence) ==
    [type |-> type, direction |-> direction, confidence |-> confidence]

PdFvg == {PdPattern("FVG_BULLISH", "BUY", FvgConfidence),
          PdPattern("FVG_BEARISH", "SELL", FvgConfidence)}
PdOrderBlocks == {PdPattern("ORDER_BLOCK_BULLISH", "BUY", OrderBlockConfidencePd),
                  PdPattern("ORDER_BLOCK_BEARISH", "SELL", OrderBlockConfidencePd)}

\* at most one of each direction, the bullish BOS and the bearish MSS first
OneEach(first, second) == {<<>>, <<first>>, <<second>>, <<first, second>>}

PdAnalyses ==
    [bos_signals : OneEach(PdPattern("BOS_BULLISH", "BUY", BosConfidence),
                           PdPattern("BOS_BEARISH", "SELL", BosConfidence)),
     mss_signals : OneEach(PdPattern("MSS_BEARISH", "SELL", MssConfidence),
                           PdPattern("MSS_BULLISH", "BUY", MssConfidence)),
     fvg_signals : SeqsUpTo(PdFvg, MaxFvgSignals),
     order_blocks : SeqsUpTo(PdOrderBlocks, MaxOrderBlocks)]

\* a pattern dict of SmartMoneyConceptsRender
RenderPattern(type, confidence) == [type |-> type, confidence |-> confidence]

RenderFvg == {RenderPattern("FVG_BULLISH", 700), RenderPattern("FVG_BULLISH", 900),
              RenderPattern("FVG_BEARISH", 800)}
RenderOrderBlocks == {RenderPattern("ORDER_BLOCK_BULLISH", OrderBlockConfidence),
                      RenderPattern("ORDER_BLOCK_BEARISH", OrderBlockConfidence)}

RenderAnalyses ==
    [kind : {"smc_data"},
     bos_signals : OneEach(RenderPattern("BOS_BULLISH", BosConfidenceRender),
                           RenderPattern("BOS_BEARISH", BosConfidenceRender)),
     mss_signals : {<<>>, <<RenderPattern("MSS_BEARISH", MssConfidenceRender)>>,
                    <<RenderPattern("MSS_BULLISH", MssConfidenceRender)>>},
     fvg_signals : SeqsUpTo(RenderFvg, MaxFvgSignals),
     order_blocks : SeqsUpTo(RenderOrderBlocks, MaxOrderBlocks)]

ScoreVotes == {<<>>, <<"BUY", "SELL">>, <<"BUY", "BUY", "BUY">>}

ScoreInputs ==
    [impl : {"pandas"}, smc_analysis : PdAnalyses \cup {NoneVal, <<>>},
     traditional_signals : ScoreVotes]
    \cup [impl : {"render"}, smc_analysis : RenderAnalyses \cup {NoneVal},
          traditional_signals : ScoreVotes]

ScoreInit ==
    /\ BotIdle /\ GateIdle /\ BarsIdle /\ IndIdle
    /\ call_in \in ScoreInputs
    /\ call_out = [done |-> FALSE]

ScoreApply ==
    /\ ~call_out.done
    /\ LET smc_signal ==
               IF call_in.impl = "pandas"
               THEN calculate_smc_signal_strength_pd(call_in.smc_analysis)
               ELSE calculate_smc_signal_strength(call_in.smc_analysis)
       IN  call_out' = [done |-> TRUE, smc_signal |-> smc_signal,
                        confidence |-> calculate_overall_confidence(
                                           smc_signal, call_in.traditional_signals)]
    /\ UNCHANGED <<call_in, botVars, gateVars, barVars, indVars>>

ScoreNext == ScoreApply

ScoreSpec == ScoreInit /\ [][ScoreNext]_vars

InUnitRange(confidence) == 0 <= confidence /\ confidence <= 1000

\* C11: the confidence the scorer returns (confidence of SmartMoneyConcepts,
\* strength of SmartMoneyConceptsRender) and the overall confidence computed
\* from it are within [0, 1].
C11_ConfidenceRange ==
    call_out.done =>
        /\ call_in.impl = "pandas" => InUnitRange(call_out.smc_signal.confidence)
        /\ call_in.impl = "render" => InUnitRange(call_out.smc_signal.strength)
        /\ InUnitRange(call_out.confidence)

\* MSS signals alone, weighted 1.2, average 1.02: the scorer returns 1.0, and
\* with three agreeing votes the overall confidence is 1.0
C11_Witness ==
    /\ call_out.done
    /\ call_in.impl = "pandas"
    /\ call_in.smc_analysis # <<>>
    /\ ~IsNone(call_in.smc_analysis)
    /\ call_in.smc_analysis.bos_signals = <<>>
    /\ Len(call_in.smc_analysis.mss_signals) = 1
    /\ call_out.smc_signal.confidence = 1000
    /\ call_out.confidence = 1000


\* the analysis given to the scorer of SmartMoneyConcepts, with every key
ScoredAnalysis ==
    [k \in {"bos_signals", "mss_signals", "fvg_signals", "order_blocks"} |->
        PatternsOf(call_in.smc_analysis, k)]

\* the contributing signals: every BOS, then every MSS
Contributing == ScoredAnalysis["bos_signals"] \o ScoredAnalysis["mss_signals"]

\* the gaps (order blocks) whose direction is that of the contributing
\* signal immediately before them, the last of Contributing
CountedOf(list) ==
    {k \in 1..Len(list) :
        Contributing # <<>> /\ list[k].direction = Contributing[Len(Contributing)].direction}

RECURSIVE SumOver(_, _)
SumOver(list, indices) ==
    IF indices = {} THEN 0
    ELSE LET k == CHOOSE x \in indices : TRUE
         IN  list[k].confidence + SumOver(list, indices \ {k})

\* the number of counted signals
CountedSignals ==
    Len(Contributing) + Cardinality(CountedOf(ScoredAnalysis["fvg_signals"]))
    + Cardinality(CountedOf(ScoredAnalysis["order_blocks"]))

\* the sum of confidence x weight over the counted signals, in units of
\* 0.0001 (BOS 1.0, MSS 1.2, FVG 0.8, order block 0.9)
WeightedSum ==
      10 * SumOver(ScoredAnalysis["bos_signals"], DOMAIN ScoredAnalysis["bos_signals"])
    + 12 * SumOver(ScoredAnalysis["mss_signals"], DOMAIN ScoredAnalysis["mss_signals"])
    + 8 * SumOver(ScoredAnalysis["fvg_signals"], CountedOf(ScoredAnalysis["fvg_signals"]))
    + 9 * SumOver(ScoredAnalysis["order_blocks"], CountedOf(ScoredAnalysis["order_blocks"]))

\* avgConfidence > 0.7
AverageAboveThreshold == WeightedSum > 7000 * CountedSignals

ContributingBuys == Cardinality({k \in DOMAIN Contributing : Contributing[k].direction = "BUY"})
ContributingSells == Cardinality({k \in DOMAIN Contributing : Contributing[k].direction = "SELL"})

ScoredByPandas == call_out.done /\ call_in.impl = "pandas"

\* C14: the action is BUY (SELL) exactly when the BUY (SELL) contributing
\* signals strictly outnumber the opposite ones and avgConfidence > 0.7, and
\* HOLD in every other case; with no counted signal it is HOLD with
\* confidence 0.
C14_ConfluenceActionRule ==
    ScoredByPandas =>
        LET smc_signal == call_out.smc_signal IN
        /\ smc_signal.action \in {"BUY", "SELL", "HOLD"}
        /\ smc_signal.action = "BUY"
              <=> (ContributingBuys > ContributingSells /\ AverageAboveThreshold)
        /\ smc_signal.action = "SELL"
              <=> (ContributingSells > ContributingBuys /\ AverageAboveThreshold)
        /\ CountedSignals = 0 => smc_signal.action = "HOLD" /\ smc_signal.confidence = 0

\* a BUY majority whose average is exactly 0.7, a BOS and an MSS confirmed by
\* three gaps ((0.8 + 1.02 + 3 x 0.56) / 5), is HOLD
C14_Witness ==
    /\ ScoredByPandas
    /\ ContributingBuys > ContributingSells
    /\ WeightedSum = 7000 * CountedSignals
    /\ call_out.smc_signal.action = "HOLD"

\* a BUY majority above 0.7 is BUY, a tie is HOLD
C14_WitnessBuy ==
    /\ ScoredByPandas
    /\ ContributingBuys > ContributingSells /\ ContributingSells = 1
    /\ call_out.smc_signal.action = "BUY"

\* C15: signal_count is the number of counted signals, every BOS and MSS and
\* the gaps and order blocks whose direction is that of the immediately
\* preceding contributing signal, and the confidence is the sum of
\* confidence x weight over them divided by that number (capped at 1).
C15_ConfluenceWeighting ==
    (ScoredByPandas /\ CountedSignals > 0) =>
        /\ call_out.smc_signal.signal_count = CountedSignals
        /\ call_out.smc_signal.confidence
              = Min2(1000, WeightedSum \div (10 * CountedSignals))
        /\ call_out.smc_signal.signals = Contributing

\* an MSS, a gap that is counted and an order block that is not
C15_Witness ==
    /\ ScoredByPandas
    /\ ScoredAnalysis["mss_signals"] # <<>>
    /\ Cardinality(CountedOf(ScoredAnalysis["fvg_signals"])) = 1
    /\ Len(ScoredAnalysis["fvg_signals"]) = 2
    /\ ScoredAnalysis["order_blocks"] # <<>>
    /\ CountedOf(ScoredAnalysis["order_blocks"]) = {}
    /\ call_out.smc_signal.signal_count = CountedSignals


-----------------------------------------------------------------------------
(* RiskManager (risk_management.py).  Prices are integers in units of       *)
(* 0.0001 (one pip of a currency pair), account balances whole dollars,     *)
(* risk percent whole percents, position sizes integers in units of 0.0001  *)
(* lot (0.01 lot is 100).  Floats are Python floats: a division by zero     *)
(* raises ZeroDivisionError.                                                *)

\* the characters of the symbols the functions are called with: the four
\* TradingBot configures and one quoted in another currency
SymbolChars ==
    [s \in (DOMAIN symbols) \cup {"ETH-EUR"} |->
        IF s = "EURUSD=X" THEN <<"E", "U", "R", "U", "S", "D", "=", "X">>
        ELSE IF s = "GBPUSD=X" THEN <<"G", "B", "P", "U", "S", "D", "=", "X">>
        ELSE IF s = "XAUUSD=X" THEN <<"X", "A", "U", "U", "S", "D", "=", "X">>
        ELSE IF s = "BTC-USD" THEN <<"B", "T", "C", "-", "U", "S", "D">>
        ELSE <<"E", "T", "H", "-", "E", "U", "R">>]

\* sub in symbol, for strings: sub occurs at some position of symbol
Contains(symbol, sub) ==
    \E k \in 0..(Len(SymbolChars[symbol]) - Len(sub)) :
        SubSeq(SymbolChars[symbol], k + 1, k + Len(sub)) = sub

Abs(x) == IF x < 0 THEN -x ELSE x

\* round(num / den, 0) for den > 0: to the nearest integer, a tie to the even one
RoundDiv(num, den) ==
    LET n == Abs(num)
        q == n \div den
        r == n % den
        rounded == IF 2 * r > den THEN q + 1
                   ELSE IF 2 * r < den THEN q
                   ELSE IF q % 2 = 0 THEN q ELSE q + 1
    IN  IF num < 0 THEN -rounded ELSE rounded

MinLot == 100
PipValue == 10

\* faulty variant: the size is returned unfloored
position_floor_missing(lot_size) == lot_size

\* line 267: max(lot_size, 0.01)
position_floor(lot_size) == Max2(lot_size, MinLot)

\* RiskManager.calculate_position_size.  risk_amount is
\* account_balance * risk_percent / 100 dollars and risk_pips the price
\* distance; max_lots = account_balance * risk_percent / (100 * risk_pips * 10).
calculate_position_size(account_balance, risk_percent, entry_price, stop_loss, symbol) ==
    LET risk_per_unit == Abs(entry_price - stop_loss)
        cents == account_balance * risk_percent          \* 100 * risk_amount
    IN  IF risk_per_unit = 0 THEN MinLot                 \* ZeroDivisionError, caught
        ELSE IF Contains(symbol, <<"U", "S", "D">>)
        THEN LET lots_den == 100 * risk_per_unit * PipValue
             IN  position_floor(
                     IF cents >= lots_den                          \* max_lots >= 1.0
                     THEN 1000 * RoundDiv(10 * cents, lots_den)    \* round(max_lots, 1)
                     ELSE IF 10 * cents >= lots_den                \* max_lots >= 0.1
                     THEN 100 * RoundDiv(100 * cents, lots_den)    \* round(max_lots, 2)
                     ELSE MinLot)
        ELSE \* max_units = risk_amount / risk_per_unit, round(max_units, 4)
             position_floor(RoundDiv(1000000 * cents, risk_per_unit))

MinRewardRisk == 18
MaxRiskPips == 40
MinRiskPips == 8
MaxRiskPercent == 25
MinRiskPercent == 3

\* RiskManager.validate_trade_risk: the boolean it returns.  rr_ratio < 1.8 is
\* 10 * reward < 18 * risk (rr_ratio is 0 when risk is 0); risk_percent > 2.5
\* is 1000 * risk > 25 * entry_price and risk_percent < 0.3 is
\* 1000 * risk < 3 * entry_price, written so that they stay within 32 bits.
validate_trade_risk(entry_price, stop_loss, take_profit, symbol) ==
    LET risk == Abs(entry_price - stop_loss)
        reward == Abs(take_profit - entry_price)
        rr_too_low == risk = 0 \/ 10 * reward < MinRewardRisk * risk
    IN  IF Contains(symbol, <<"U", "S", "D">>)
        THEN ~rr_too_low /\ ~(risk > MaxRiskPips) /\ ~(risk < MinRiskPips)
        ELSE IF entry_price = 0 THEN FALSE             \* ZeroDivisionError, caught
        ELSE /\ ~rr_too_low
             /\ ~((1000 \div MaxRiskPercent) * risk > entry_price)
             /\ ~(risk <= (MinRiskPercent * entry_price - 1) \div 1000)


(* Stop-loss and take-profit levels.  The arithmetic is that of the source  *)
(* on exact numbers: the series these operators are applied to have every   *)
(* price a multiple of 280 units, so that the mean of 14 true ranges, 1.5,  *)
(* 0.3 and 0.2 times it, and 2.5, 3.5 and 4.5 times a risk are whole (a     *)
(* pip is 280 units and 1.1000 is 3080000).                                 *)

AtrPeriod == 14
Lookback == 20
RecentLevels == 10
TargetRR == 25

\* row i (0-based) of true_range: the NaN of close.shift(1) in row 0 is
\* skipped by max(axis=1)
true_range(data, i) ==
    LET tr1 == At(data, i).high - At(data, i).low
    IN  IF i = 0 THEN tr1
        ELSE Max2(tr1, Max2(Abs(At(data, i).high - At(data, i - 1).close),
                            Abs(At(data, i).low - At(data, i - 1).close)))

\* RiskManager.calculate_atr_volatility: the rows of the rolling mean that
\* are not NaN, one for each window of `period` rows
calculate_atr_volatility(data, period) ==
    IF Len(data) < period THEN <<>>
    ELSE [k \in 1..(Len(data) - period + 1) |->
             SumSeq([j \in 1..period |-> true_range(data, k + j - 2)]) \div period]

SeqMax(list) == CHOOSE m \in {list[k] : k \in DOMAIN list} :
                    \A k \in DOMAIN list : m >= list[k]
SeqMin(list) == CHOOSE m \in {list[k] : k \in DOMAIN list} :
                    \A k \in DOMAIN list : m <= list[k]

\* sorted(list): ascending
RECURSIVE sorted(_)
sorted(list) ==
    IF list = <<>> THEN <<>>
    ELSE LET m == SeqMin(list)
             k == CHOOSE i \in DOMAIN list : list[i] = m /\ \A j \in 1..(i - 1) : list[j] # m
         IN  <<m>> \o sorted(SubSeq(list, 1, k - 1) \o SubSeq(list, k + 1, Len(list)))

Reversed(list) == [k \in 1..Len(list) |-> list[Len(list) + 1 - k]]

\* the rows i of range(lookback, len - lookback) whose value equals the
\* extreme ("max" or "min") of the window i-lookback .. i+lookback, in index
\* order
LevelIndices(series, lookback, extreme) ==
    SelectSeq([k \in 1..Max2(Len(series) - 2 * lookback, 0) |-> lookback + k - 1],
              LAMBDA i :
                  LET window == SubSeq(series, i - lookback + 1, i + lookback + 1)
                  IN  At(series, i) = IF extreme = "max" THEN SeqMax(window)
                                      ELSE SeqMin(window))

\* RiskManager.identify_support_resistance
identify_support_resistance(data, lookback) ==
    LET highs == Highs(data)
        lows == Lows(data)
        res_idx == LevelIndices(highs, lookback, "max")
        sup_idx == LevelIndices(lows, lookback, "min")
        resistance_levels == [k \in 1..Len(res_idx) |-> At(highs, res_idx[k])]
        support_levels == [k \in 1..Len(sup_idx) |-> At(lows, sup_idx[k])]
    IN  [resistance |-> Reversed(sorted(LastK(resistance_levels, RecentLevels))),
         support |-> sorted(LastK(support_levels, RecentLevels))]

\* the exception that leaves a function
Raised(error) == [kind |-> "raised", error |-> error]

\* RiskManager.calculate_optimal_stop_loss.  atr.iloc[-1] of an empty series
\* raises IndexError in the try block and again in the except block.
calculate_optimal_stop_loss(entry_price, direction, data, atr) ==
    IF atr = <<>> THEN Raised("IndexError")
    ELSE
    LET current_atr == Last(atr)
        levels == identify_support_resistance(data, Lookback)
    IN  IF direction = "BUY"
        THEN LET base_sl == entry_price - (current_atr * 3) \div 2
                 support_below == SelectSeq(levels.support, LAMBDA level : level < entry_price)
             IN  IF support_below # <<>>
                 THEN Max2(base_sl, SeqMax(support_below) - (current_atr * 3) \div 10)
                 ELSE base_sl
        ELSE LET base_sl == entry_price + (current_atr * 3) \div 2
                 resistance_above == SelectSeq(levels.resistance,
                                               LAMBDA level : level > entry_price)
             IN  IF resistance_above # <<>>
                 THEN Min2(base_sl, SeqMin(resistance_above) + (current_atr * 3) \div 10)
                 ELSE base_sl

\* RiskManager.calculate_optimal_take_profit.  rr_ratio is kept as the pair
\* of the quotient abs(tp1 - entry_price) / risk; stop_loss is a numpy float
\* as atr.iloc[-1] is, so that a zero risk divides to nan without raising.
calculate_optimal_take_profit(entry_price, stop_loss, direction, data, atr) ==
    IF atr = <<>>
    THEN \* IndexError, caught: the fallback calculation
         LET risk == Abs(entry_price - stop_loss)
             tp1 == IF direction = "BUY" THEN entry_price + (risk * TargetRR) \div 10
                    ELSE entry_price - (risk * TargetRR) \div 10
         IN  [tp1 |-> tp1, tp2 |-> tp1, tp3 |-> tp1, risk_amount |-> risk,
              rr_ratio |-> [num |-> TargetRR, den |-> 10]]
    ELSE
    LET current_atr == Last(atr)
        risk == Abs(entry_price - stop_loss)
        levels == identify_support_resistance(data, Lookback)
        tp1 ==
            IF direction = "BUY"
            THEN LET base_tp1 == entry_price + (risk * TargetRR) \div 10
                     resistance_above == SelectSeq(levels.resistance,
                                                   LAMBDA level : level > entry_price)
                 IN  IF resistance_above # <<>> /\ base_tp1 > SeqMin(resistance_above)
                     THEN SeqMin(resistance_above) - current_atr \div 5
                     ELSE base_tp1
            ELSE LET base_tp1 == entry_price - (risk * TargetRR) \div 10
                     support_below == SelectSeq(levels.support,
                                                LAMBDA level : level < entry_price)
                 IN  IF support_below # <<>> /\ base_tp1 < SeqMax(support_below)
                     THEN SeqMax(support_below) + current_atr \div 5
                     ELSE base_tp1
        sign == IF direction = "BUY" THEN 1 ELSE -1
    IN  [tp1 |-> tp1,
         tp2 |-> entry_price + sign * ((risk * (TargetRR + 10)) \div 10),
         tp3 |-> entry_price + sign * ((risk * (TargetRR + 20)) \div 10),
         risk_amount |-> risk,
         rr_ratio |-> [num |-> Abs(tp1 - entry_price), den |-> risk]]


-----------------------------------------------------------------------------
(* RiskSpec: one call of a RiskManager function per behaviour.  A level     *)
(* plan is the caller's sequence calculate_atr_volatility,                  *)
(* calculate_optimal_stop_loss, calculate_optimal_take_profit on the same   *)
(* entry, direction and bars.                                               *)

MaxPlanBars == 45

AllSymbols == DOMAIN SymbolChars

PositionInputs ==
    [fn : {"calculate_position_size"},
     account_balance : {-100, 0, 100, 1000},
     risk_percent : {1, 2},
     entry_price : {11000},
     stop_loss : {11000 - p : p \in {0, 1, 2, 3, 20, 50, -20}},
     symbol : AllSymbols]

\* a typical quote of each symbol, in units of 0.0001
TypicalPrice(symbol) ==
    IF symbol = "EURUSD=X" THEN 11000
    ELSE IF symbol = "GBPUSD=X" THEN 13000
    ELSE IF symbol = "BTC-USD" THEN 600000000
    ELSE 20000000

\* risks around the pip limits and around the percentage limits of an entry
RisksAround(entry_price) ==
    {0, 7, 8, 40, 41,
     (3 * entry_price) \div 1000 - 1, (3 * entry_price) \div 1000,
     entry_price \div 100, entry_price \div 40, entry_price \div 40 + 1}

ValidateInputs ==
    UNION {
        {[fn |-> "validate_trade_risk", symbol |-> symbol,
          entry_price |-> TypicalPrice(symbol),
          stop_loss |-> TypicalPrice(symbol) - side * risk,
          take_profit |-> TypicalPrice(symbol) + side * ((risk * tenths) \div 10)] :
            risk \in RisksAround(TypicalPrice(symbol)),
            tenths \in {17, 18, 25}, side \in {1, -1}} :
        symbol \in AllSymbols}

\* n bars ranging between close - wick and close + wick around one close
RangeSeries(n, close, wick) ==
    [k \in 1..n |-> Bar(close, close + wick, close - wick, close, 0)]

PlanSeries ==
    {RangeSeries(n, 3080000, wick) :
        n \in {10, MaxPlanBars - 5, MaxPlanBars}, wick \in {0, 280, 1400}}

PlanInputs ==
    [fn : {"plan"},
     entry_price : {3080000 + 280 * k : k \in -6..6},
     direction : {"BUY", "SELL"},
     data : PlanSeries]

RiskInputs == PositionInputs \cup ValidateInputs \cup PlanInputs

RiskInit ==
    /\ BotIdle /\ GateIdle /\ BarsIdle /\ IndIdle
    /\ call_in \in RiskInputs
    /\ call_out = [done |-> FALSE]

PositionSizeApply ==
    /\ call_in.fn = "calculate_position_size" /\ ~call_out.done
    /\ call_out' = [done |-> TRUE,
                    lot_size |-> calculate_position_size(
                                     call_in.account_balance, call_in.risk_percent,
                                     call_in.entry_price, call_in.stop_loss,
                                     call_in.symbol)]
    /\ UNCHANGED <<call_in, botVars, gateVars, barVars, indVars>>

ValidateApply ==
    /\ call_in.fn = "validate_trade_risk" /\ ~call_out.done
    /\ call_out' = [done |-> TRUE,
                    valid |-> validate_trade_risk(call_in.entry_price, call_in.stop_loss,
                                                  call_in.take_profit, call_in.symbol)]
    /\ UNCHANGED <<call_in, botVars, gateVars, barVars, indVars>>

AtrApply ==
    /\ call_in.fn = "plan" /\ ~call_out.done /\ "atr" \notin DOMAIN call_out
    /\ call_out' = [done |-> FALSE,
                    atr |-> calculate_atr_volatility(call_in.data, AtrPeriod)]
    /\ UNCHANGED <<call_in, botVars, gateVars, barVars, indVars>>

StopLossApply ==
    /\ call_in.fn = "plan" /\ ~call_out.done
    /\ "atr" \in DOMAIN call_out /\ "stop_loss" \notin DOMAIN call_out
    /\ LET stop_loss == calculate_optimal_stop_loss(call_in.entry_price, call_in.direction,
                                                    call_in.data, call_out.atr)
       IN  call_out' = IF call_out.atr = <<>>
                       THEN [done |-> TRUE, atr |-> call_out.atr, raised |-> stop_loss]
                       ELSE [done |-> FALSE, atr |-> call_out.atr, stop_loss |-> stop_loss]
    /\ UNCHANGED <<call_in, botVars, gateVars, barVars, indVars>>

TakeProfitApply ==
    /\ call_in.fn = "plan" /\ ~call_out.done
    /\ "stop_loss" \in DOMAIN call_out
    /\ call_out' = [done |-> TRUE, atr |-> call_out.atr, stop_loss |-> call_out.stop_loss,
                    take_profit |-> calculate_optimal_take_profit(
                                        call_in.entry_price, call_out.stop_loss,
                                        call_in.direction, call_in.data, call_out.atr)]
    /\ UNCHANGED <<call_in, botVars, gateVars, barVars, indVars>>

RiskNext ==
    \/ PositionSizeApply
    \/ ValidateApply
    \/ AtrApply
    \/ StopLossApply
    \/ TakeProfitApply

RiskSpec == RiskInit /\ [][RiskNext]_vars


PlanCall == call_in # NoneVal /\ call_in.fn = "plan"
StopReturned == PlanCall /\ "stop_loss" \in DOMAIN call_out
PlanReturned == PlanCall /\ "take_profit" \in DOMAIN call_out

\* the stop lies on the losing side of the entry
StopApart ==
    IF call_in.direction = "BUY" THEN call_out.stop_loss < call_in.entry_price
    ELSE call_out.stop_loss > call_in.entry_price

\* C12: for every entry price, direction, bar series and volatility series
\* calculate_optimal_stop_loss accepts, a flat series of ATR 0 included, the
\* returned stop differs from the entry: strictly below it for BUY, strictly
\* above it for SELL.
C12_StopNeverEqualsEntry == StopReturned => StopApart

\* what does hold: the stop is apart from the entry when the last ATR is positive
StopApartWhenVolatile == (StopReturned /\ Last(call_out.atr) > 0) => StopApart

\* a flat series: the last ATR is 0 and the stop is the entry
FlatStopIsEntry ==
    StopReturned /\ Last(call_out.atr) = 0 /\ call_out.stop_loss = call_in.entry_price

PositionCall ==
    call_in # NoneVal /\ call_in.fn = "calculate_position_size" /\ call_out.done

\* C13: for every account balance, risk percent, entry, stop and instrument,
\* calculate_position_size returns at least 0.01, also when the stop equals
\* the entry (zero risk per unit, the division fails).
C13_PositionSizeFloor == PositionCall => call_out.lot_size >= MinLot

\* stop equals entry: the ZeroDivisionError is caught and 0.01 returned
C13_Witness ==
    PositionCall /\ call_in.stop_loss = call_in.entry_price /\ call_out.lot_size = MinLot

\* a unit count below 0.01 is raised to 0.01, and a larger size is returned as it is
C13_WitnessFloored ==
    /\ PositionCall /\ ~Contains(call_in.symbol, <<"U", "S", "D">>)
    /\ call_in.account_balance <= 0 /\ call_in.stop_loss # call_in.entry_price
    /\ call_out.lot_size = MinLot

C13_WitnessSized == PositionCall /\ call_out.lot_size > MinLot

ValidateCall ==
    call_in # NoneVal /\ call_in.fn = "validate_trade_risk" /\ call_out.done

PlanRisk == Abs(call_in.entry_price - call_in.stop_loss)
PlanReward == Abs(call_in.take_profit - call_in.entry_price)
RewardRiskOk == PlanRisk > 0 /\ 10 * PlanReward >= 18 * PlanRisk
PipRuleOk == PlanRisk >= 8 /\ PlanRisk <= 40
PercentRuleOk ==
    /\ 40 * PlanRisk <= call_in.entry_price
    /\ PlanRisk > (3 * call_in.entry_price - 1) \div 1000
CurrencyPairs == {"EURUSD=X", "GBPUSD=X"}
OtherInstruments == {"XAUUSD=X", "BTC-USD"}

\* C16: validate_trade_risk accepts a plan exactly when reward/risk >= 1.8
\* and, for the currency pairs, the risk is 8 to 40 pips, for gold and
\* bitcoin, the risk is 0.3% to 2.5% of the entry (percentage rule, not the
\* pip rule).
C16_ValidationByAssetClass ==
    ValidateCall =>
        /\ call_in.symbol \in CurrencyPairs =>
               (call_out.valid <=> (RewardRiskOk /\ PipRuleOk))
        /\ call_in.symbol \in OtherInstruments =>
               (call_out.valid <=> (RewardRiskOk /\ PercentRuleOk))

\* what does hold: every symbol that contains USD is validated by the pip rule
PipRuleForUsdSymbols ==
    (ValidateCall /\ Contains(call_in.symbol, <<"U", "S", "D">>)) =>
        (call_out.valid <=> (RewardRiskOk /\ PipRuleOk))

\* gold with a risk of 1% of the entry and reward/risk 2.5 is rejected
GoldOnePercentRejected ==
    /\ ValidateCall /\ call_in.symbol = "XAUUSD=X"
    /\ 100 * PlanRisk = call_in.entry_price /\ 10 * PlanReward = 25 * PlanRisk
    /\ ~call_out.valid

\* C17: for every BUY plan of calculate_optimal_stop_loss followed by
\* calculate_optimal_take_profit, stop < entry < tp1 <= tp2 <= tp3, also when
\* tp1 was clipped to 0.2 x ATR before the nearest resistance; for every SELL
\* plan stop > entry > tp1 >= tp2 >= tp3.
C17_LevelOrdering ==
    PlanReturned =>
        LET entry == call_in.entry_price
            stop == call_out.stop_loss
            tp == call_out.take_profit
        IN  IF call_in.direction = "BUY"
            THEN stop < entry /\ entry < tp.tp1 /\ tp.tp1 <= tp.tp2 /\ tp.tp2 <= tp.tp3
            ELSE stop > entry /\ entry > tp.tp1 /\ tp.tp1 >= tp.tp2 /\ tp.tp2 >= tp.tp3

\* a BUY plan on a volatile series whose clipped tp1 is below the entry
ClippedBelowEntry ==
    /\ PlanReturned /\ call_in.direction = "BUY" /\ Last(call_out.atr) > 0
    /\ call_out.stop_loss < call_in.entry_price
    /\ call_out.take_profit.tp1 < call_in.entry_price


-----------------------------------------------------------------------------
(* SmartMoneyConcepts (smart_money_concepts.py), the analysis on a          *)
(* DataFrame.  identify_swing_points and detect_fair_value_gaps_pd are      *)
(* above; prices are in units of 0.0001.                                    *)

GoldFvgThreshold == 5000
CryptoFvgThreshold == 50000

\* lines 269-274: the threshold analyze_smart_money_concepts assigns to
\* self.fvg_threshold
fvg_threshold_for(symbol) ==
    IF Contains(symbol, <<"U", "S", "D">>) /\ Contains(symbol, <<"=">>)
    THEN DefaultFvgThreshold
    ELSE IF Contains(symbol, <<"X", "A", "U">>) THEN GoldFvgThreshold
    ELSE CryptoFvgThreshold

\* SmartMoneyConcepts.detect_break_of_structure
detect_break_of_structure_pd(data, swing_points) ==
    IF data = <<>> THEN <<>>                 \* iloc[-1] raises; except: []
    ELSE
    LET swing_highs == swing_points.swing_highs
        swing_lows  == swing_points.swing_lows
        current_price == Last(data).close
        bullish ==
            IF Len(swing_highs) >= 2 /\ current_price > Last(swing_highs).price
            THEN <<[type |-> "BOS_BULLISH", direction |-> "BUY",
                    price |-> current_price,
                    broken_level |-> Last(swing_highs).price,
                    confidence |-> BosConfidence]>>
            ELSE <<>>
        bearish ==
            IF Len(swing_lows) >= 2 /\ current_price < Last(swing_lows).price
            THEN <<[type |-> "BOS_BEARISH", direction |-> "SELL",
                    price |-> current_price,
                    broken_level |-> Last(swing_lows).price,
                    confidence |-> BosConfidence]>>
            ELSE <<>>
    IN  bullish \o bearish

\* faulty variant: one swing on the broken side is enough
detect_market_structure_shift_pd_one_swing(data, swing_points) ==
    IF data = <<>> THEN <<>>
    ELSE
    LET swing_highs == swing_points.swing_highs
        swing_lows  == swing_points.swing_lows
        current_price == Last(data).close
        bearish ==
            IF /\ Len(swing_lows) >= 1 /\ Len(swing_highs) >= 1
               /\ Last(swing_highs).timestamp > Last(swing_lows).timestamp
               /\ current_price < Last(swing_lows).price
            THEN <<[type |-> "MSS_BEARISH", direction |-> "SELL",
                    price |-> current_price,
                    broken_level |-> Last(swing_lows).price,
                    confidence |-> MssConfidence]>>
            ELSE <<>>
        bullish ==
            IF /\ Len(swing_highs) >= 1 /\ Len(swing_lows) >= 1
               /\ Last(swing_lows).timestamp > Last(swing_highs).timestamp
               /\ current_price > Last(swing_highs).price
            THEN <<[type |-> "MSS_BULLISH", direction |-> "BUY",
                    price |-> current_price,
                    broken_level |-> Last(swing_highs).price,
                    confidence |-> MssConfidence]>>
            ELSE <<>>
    IN  bearish \o bullish

\* SmartMoneyConcepts.detect_market_structure_shift: two independent tests
detect_market_structure_shift_pd(data, swing_points) ==
    IF data = <<>> THEN <<>>
    ELSE
    LET swing_highs == swing_points.swing_highs
        swing_lows  == swing_points.swing_lows
        current_price == Last(data).close
        bearish ==
            IF /\ Len(swing_lows) >= 2 /\ Len(swing_highs) >= 1
               /\ Last(swing_highs).timestamp > Last(swing_lows).timestamp
               /\ current_price < Last(swing_lows).price
            THEN <<[type |-> "MSS_BEARISH", direction |-> "SELL",
                    price |-> current_price,
                    broken_level |-> Last(swing_lows).price,
                    confidence |-> MssConfidence]>>
            ELSE <<>>
        bullish ==
            IF /\ Len(swing_highs) >= 2 /\ Len(swing_lows) >= 1
               /\ Last(swing_lows).timestamp > Last(swing_highs).timestamp
               /\ current_price > Last(swing_highs).price
            THEN <<[type |-> "MSS_BULLISH", direction |-> "BUY",
                    price |-> current_price,
                    broken_level |-> Last(swing_highs).price,
                    confidence |-> MssConfidence]>>
            ELSE <<>>
    IN  bearish \o bullish

SwingsScanned == 3
ScanBack == 10

\* the stop of range(swing_idx - 1, max(0, swing_idx - 10), -1), which the
\* range excludes
scan_stop(swing_idx) == Max2(0, swing_idx - ScanBack)

\* the order block of one swing: the first j of
\* range(swing_idx - 1, max(0, swing_idx - 10), -1) whose candle is bearish
\* (before a swing low) or bullish (before a swing high)
order_block_before(data, swing_idx, type) ==
    LET opposite(j) == IF type = "ORDER_BLOCK_BULLISH"
                       THEN At(data, j).close < At(data, j).open
                       ELSE At(data, j).close > At(data, j).open
        found == {j \in (scan_stop(swing_idx) + 1)..(swing_idx - 1) : opposite(j)}
    IN  IF swing_idx > 0 /\ found # {}
        THEN LET j == CHOOSE x \in found : \A y \in found : y <= x
             IN  <<[type |-> type,
                    direction |-> IF type = "ORDER_BLOCK_BULLISH" THEN "BUY" ELSE "SELL",
                    zone_top |-> At(data, j).high, zone_bottom |-> At(data, j).low,
                    index |-> j, confidence |-> OrderBlockConfidencePd]>>
        ELSE <<>>

RECURSIVE order_blocks_before(_, _, _)
order_blocks_before(data, swings, type) ==
    IF swings = <<>> THEN <<>>
    ELSE order_block_before(data, Head(swings).index, type)
         \o order_blocks_before(data, Tail(swings), type)

\* SmartMoneyConcepts.detect_order_blocks
detect_order_blocks_pd(data, swing_points) ==
    order_blocks_before(data, LastK(swing_points.swing_lows, SwingsScanned),
                        "ORDER_BLOCK_BULLISH")
    \o order_blocks_before(data, LastK(swing_points.swing_highs, SwingsScanned),
                           "ORDER_BLOCK_BEARISH")

\* SmartMoneyConcepts.analyze_smart_money_concepts, after the threshold
\* assignment; the dict is flattened to the four signal lists.  An empty
\* frame raises at data.index[-1] and {} is returned.
analyze_smart_money_concepts_pd(data, w, threshold) ==
    IF data = <<>> THEN <<>>
    ELSE
    LET swing_points == identify_swing_points(data, w)
    IN  [swing_points |-> swing_points,
         bos_signals |-> detect_break_of_structure_pd(data, swing_points),
         mss_signals |-> detect_market_structure_shift_pd(data, swing_points),
         fvg_signals |-> detect_fair_value_gaps_pd(data, threshold),
         order_blocks |-> detect_order_blocks_pd(data, swing_points),
         current_price |-> Last(data).close]


-----------------------------------------------------------------------------
(* SymbolSpec: one analyser object, SmartMoneyConcepts or                   *)
(* SmartMoneyConceptsRender, analyses a bar series for the configured       *)
(* symbols, one analyze_smart_money_concepts call after another.            *)

MaxZigzagBars == 66

\* n bars around `level`, the bars after index `at` shifted by `step`
StepSeries(n, level, at, step) ==
    [k \in 1..n |->
        LET close == IF k - 1 > at THEN level + step ELSE level
        IN  Bar(close, close + 2, close - 2, close, 0)]

\* gaps of 0.0001 and 0.0002, 0.5 and 0.5001, 5.0 and 5.0001, up and down
GapSizes == {1, 2, GoldFvgThreshold, GoldFvgThreshold + 1,
             CryptoFvgThreshold, CryptoFvgThreshold + 1}

GapSeries ==
    {StepSeries(MinSmcBars, 1000000, 20, side * (gap + 4)) :
        gap \in GapSizes, side \in {1, -1}}

\* a candle of the given colour on a low
Candle(low, colour) ==
    IF colour = "bearish" THEN Bar(low + 6, low + 10, low, low + 3, 0)
    ELSE IF colour = "bullish" THEN Bar(low + 3, low + 10, low, low + 6, 0)
    ELSE Bar(low + 5, low + 10, low, low + 5, 0)

Other(colour) == IF colour = "bearish" THEN "bullish" ELSE "bearish"

\* swing + 6 bars falling to one swing low at index `swing` (side 1) or
\* rising to one swing high (side -1) and turning; the candle at index
\* `marked` has the colour, every other candle the other colour
TurnSeries(swing, side, marked, colour) ==
    [k \in 1..(swing + 6) |->
        Candle(11000 + side * 20 * Abs(k - 1 - swing),
               IF k - 1 = marked THEN colour ELSE Other(colour))]

TurnSeriesSet ==
    {TurnSeries(swing, side, marked, IF side = 1 THEN "bearish" ELSE "bullish") :
        swing \in {5, 8, 12, 15}, side \in {1, -1}, marked \in -1..14}

\* swing lows at 6, 18, 30, ... and swing highs at 12, 24, 36, ...; candles
\* of one colour, or bearish on even and bullish on odd indices
Zigzag(n, colours) ==
    [k \in 1..n |->
        Candle(11000 + 20 * Abs(((k - 1) % 12) - 6),
               IF colours = "mixed"
               THEN (IF (k - 1) % 2 = 0 THEN "bearish" ELSE "bullish")
               ELSE colours)]

ZigzagSet ==
    {Zigzag(n, colours) : n \in {MinSmcBars, MaxZigzagBars},
                          colours \in {"bearish", "bullish", "mixed"}}

SymbolSeries == GapSeries \cup TurnSeriesSet \cup ZigzagSet

SymbolInit ==
    /\ BotIdle /\ GateIdle /\ IndIdle
    /\ bars \in SymbolSeries
    /\ swing_strength = DefaultSwingStrength
    /\ fvg_threshold = DefaultFvgThreshold          \* __init__ of either class
    /\ smc_out = NoneVal
    /\ call_in \in [impl : {"pandas", "render"}]
    /\ call_out = NoneVal

\* SmartMoneyConcepts.analyze_smart_money_concepts(data, symbol)
AnalyzePd(symbol) ==
    /\ call_in.impl = "pandas"
    /\ fvg_threshold' = fvg_threshold_for(symbol)
    /\ smc_out' = analyze_smart_money_concepts_pd(bars, swing_strength, fvg_threshold')
    /\ call_out' = [symbol |-> symbol]
    /\ UNCHANGED <<bars, swing_strength, call_in, botVars, gateVars, indVars>>

\* SmartMoneyConceptsRender.analyze_smart_money_concepts(market_data, symbol)
AnalyzeRender(symbol) ==
    /\ call_in.impl = "render"
    /\ smc_out' = analyze_smart_money_concepts(bars, swing_strength, fvg_threshold)
    /\ call_out' = [symbol |-> symbol]
    /\ UNCHANGED <<bars, swing_strength, fvg_threshold, call_in,
                   botVars, gateVars, indVars>>

SymbolNext ==
    \/ \E symbol \in DOMAIN symbols : AnalyzePd(symbol)
    \/ \E symbol \in DOMAIN symbols : AnalyzeRender(symbol)

SymbolSpec == SymbolInit /\ [][SymbolNext]_vars

Analysed == call_out # NoneVal /\ "symbol" \in DOMAIN call_out /\ call_in # NoneVal
             /\ "impl" \in DOMAIN call_in

ClassThreshold(symbol) ==
    IF symbol \in CurrencyPairs THEN 1
    ELSE IF symbol = "XAUUSD=X" THEN 5000
    ELSE 50000

\* C18: when an instrument is analysed, the gap threshold the FVG detector
\* applies is that of its asset class: 0.0001 for EURUSD=X and GBPUSD=X,
\* 0.5 for XAUUSD=X, 5.0 for BTC-USD.
C18_FvgThresholdPerAssetClass ==
    Analysed => fvg_threshold = ClassThreshold(call_out.symbol)

\* what does hold: currency pairs are analysed with 0.0001 by both classes,
\* and SmartMoneyConcepts analyses BTC-USD with 5.0
ThresholdOfPairsAndCrypto ==
    Analysed =>
        /\ call_out.symbol \in CurrencyPairs => fvg_threshold = 1
        /\ (call_out.symbol = "BTC-USD" /\ call_in.impl = "pandas") => fvg_threshold = 50000

\* gold analysed by SmartMoneyConcepts: a gap of 0.0002 is returned as an FVG
GoldSmallGapRegistered ==
    /\ Analysed /\ call_in.impl = "pandas" /\ call_out.symbol = "XAUUSD=X"
    /\ \E k \in DOMAIN smc_out.fvg_signals : smc_out.fvg_signals[k].gap_size = 2

\* bitcoin analysed by SmartMoneyConceptsRender: a gap of 0.5 is returned as an FVG
CryptoSmallGapRegistered ==
    /\ Analysed /\ call_in.impl = "render" /\ call_out.symbol = "BTC-USD"
    /\ ~IsNone(smc_out)
    /\ \E k \in DOMAIN smc_out.fvg_signals : smc_out.fvg_signals[k].gap_size = 5000

\* the indices with a gap above the threshold, in either direction
QualifyingGaps ==
    {i \in GapIndices : BullishGap(i) > fvg_threshold \/ BearishGap(i) > fvg_threshold}

\* a result holds the (at most) five highest qualifying indices, each once,
\* in increasing order
RetainsLastFive(signals) ==
    /\ Len(signals) <= 5
    /\ \A k \in 1..(Len(signals) - 1) : signals[k].index < signals[k + 1].index
    /\ {signals[k].index : k \in 1..Len(signals)}
           = {i \in QualifyingGaps : Cardinality(LaterGaps(i)) < 5}

\* C19: for every bar series the FVG detector returns at most 5 gaps, the 5
\* most recent qualifying ones in increasing index order; older ones are
\* dropped.
C19_FvgRetention ==
    /\ RetainsLastFive(smc_out.fvg_signals_pd)
    /\ RetainsLastFive(smc_out.fvg_signals)

\* what does hold: SmartMoneyConcepts.detect_fair_value_gaps retains the last five
FvgRetentionPd == RetainsLastFive(smc_out.fvg_signals_pd)

\* six qualifying gaps: the render detector returns all six, the other one five
SixGapsReturned ==
    /\ Cardinality(QualifyingGaps) = 6
    /\ Len(smc_out.fvg_signals) = 6
    /\ Len(smc_out.fvg_signals_pd) = 5

\* an order block as (type, zone, confidence), whichever class returned it
ReturnedBlocks ==
    IF call_in.impl = "pandas"
    THEN {[type |-> smc_out.order_blocks[k].type,
           low |-> smc_out.order_blocks[k].zone_bottom,
           high |-> smc_out.order_blocks[k].zone_top,
           confidence |-> smc_out.order_blocks[k].confidence] :
             k \in DOMAIN smc_out.order_blocks}
    ELSE {[type |-> smc_out.order_blocks[k].type,
           low |-> smc_out.order_blocks[k].zone_low,
           high |-> smc_out.order_blocks[k].zone_high,
           confidence |-> smc_out.order_blocks[k].confidence] :
             k \in DOMAIN smc_out.order_blocks}

IsBearish(j) == At(bars, j).close < At(bars, j).open
IsBullish(j) == At(bars, j).close > At(bars, j).open

\* the bars s-1 down to s-10 that exist, index 0 included, whose candle is
\* bearish (before a swing low) or bullish (before a swing high)
TenBarsBefore(s, type) ==
    {j \in Max2(0, s - 10)..(s - 1) :
        IF type = "ORDER_BLOCK_BULLISH" THEN IsBearish(j) ELSE IsBullish(j)}

\* the block the nearest such candle gives, none when there is no such candle
StatedBlock(s, type) ==
    IF TenBarsBefore(s, type) = {} THEN {}
    ELSE LET j == CHOOSE x \in TenBarsBefore(s, type) :
                      \A y \in TenBarsBefore(s, type) : y <= x
         IN  {[type |-> type, low |-> At(bars, j).low, high |-> At(bars, j).high,
               confidence |-> 750]}

LastSwings(swings) == {LastK(swings, 3)[k].index : k \in 1..Len(LastK(swings, 3))}

StatedBlocks ==
    UNION ({StatedBlock(s, "ORDER_BLOCK_BULLISH") :
                s \in LastSwings(smc_out.swing_points.swing_lows)}
           \cup {StatedBlock(s, "ORDER_BLOCK_BEARISH") :
                s \in LastSwings(smc_out.swing_points.swing_highs)})

AnalysisReturned == Analysed /\ ~IsNone(smc_out)

\* C20: for each of the last 3 swing lows s, detect_order_blocks examines the
\* bars s-1 down to s-10 (those that exist, index 0 included) and marks the
\* nearest bearish one as a bullish order block with zone [low, high] and
\* confidence 0.75, nothing when none is bearish; symmetrically the nearest
\* bullish candle before each of the last 3 swing highs gives a bearish order
\* block; at most 3 bullish and 3 bearish blocks are returned.
C20_OrderBlockScan ==
    AnalysisReturned =>
        /\ ReturnedBlocks = StatedBlocks
        /\ Count(Types(smc_out.order_blocks), "ORDER_BLOCK_BULLISH") <= 3
        /\ Count(Types(smc_out.order_blocks), "ORDER_BLOCK_BEARISH") <= 3

\* what does hold: at most 3 blocks of each type, with either class on these series
AtMostThreeEach ==
    AnalysisReturned =>
        /\ Count(Types(smc_out.order_blocks), "ORDER_BLOCK_BULLISH") <= 3
        /\ Count(Types(smc_out.order_blocks), "ORDER_BLOCK_BEARISH") <= 3

\* SmartMoneyConcepts, a swing low at index 5 and the only bearish candle at
\* index 0: no order block
IndexZeroNotExamined ==
    /\ AnalysisReturned /\ call_in.impl = "pandas"
    /\ LastSwings(smc_out.swing_points.swing_lows) = {5}
    /\ TenBarsBefore(5, "ORDER_BLOCK_BULLISH") = {0}
    /\ smc_out.order_blocks = <<>>

\* SmartMoneyConcepts, a swing low at index 15 and the only bearish candle of
\* the ten bars at index 5: no order block
TenthBarNotExamined ==
    /\ AnalysisReturned /\ call_in.impl = "pandas"
    /\ LastSwings(smc_out.swing_points.swing_lows) = {15}
    /\ TenBarsBefore(15, "ORDER_BLOCK_BULLISH") = {5}
    /\ smc_out.order_blocks = <<>>

\* SmartMoneyConcepts, the nearest bearish candle among the nine bars before
\* a swing low is returned as a bullish order block
NearestWithinNine ==
    /\ AnalysisReturned /\ call_in.impl = "pandas"
    /\ Len(smc_out.order_blocks) = 3
    /\ ReturnedBlocks = StatedBlocks

\* SmartMoneyConceptsRender returns no order block where the swings have one
RenderReturnsNone ==
    /\ AnalysisReturned /\ call_in.impl = "render"
    /\ StatedBlocks # {} /\ smc_out.order_blocks = <<>>


-----------------------------------------------------------------------------
(* get_trend_direction of TechnicalAnalysisRender (the latest values in a   *)
(* dict) and of TechnicalAnalysis (the last row of each series).  RSI is in *)
(* whole points, the other indicators in price units.                       *)

RsiMidline == 50
TrendOversold == 35
TrendOverbought == 65

\* sum([...]) of booleans
Votes(conditions) == Cardinality({k \in DOMAIN conditions : conditions[k]})

\* TechnicalAnalysisRender.get_trend_direction.  None is not subscriptable:
\* the TypeError is caught and NEUTRAL returned.
get_trend_direction(indicators) ==
    IF IsNone(indicators) THEN "NEUTRAL"
    ELSE
    LET ema_bullish == indicators.ema50 > indicators.ema200
        rsi_bullish == indicators.rsi > RsiMidline
        rsi_oversold == indicators.rsi < TrendOversold
        rsi_overbought == indicators.rsi > TrendOverbought
        macd_bullish == indicators.macd_histogram > 0
        bullish_signals == Votes(<<ema_bullish, rsi_bullish, macd_bullish>>)
    IN  IF bullish_signals >= 2 /\ ~rsi_overbought THEN "BULLISH"
        ELSE IF bullish_signals <= 1 /\ ~rsi_oversold THEN "BEARISH"
        ELSE "NEUTRAL"

\* TechnicalAnalysis.get_trend_direction
get_trend_direction_pd(indicators) ==
    IF IsNone(indicators) THEN "NEUTRAL"
    ELSE
    LET bullish_signals == Votes(<<indicators.ema50 > indicators.ema200,
                                   indicators.rsi > RsiMidline,
                                   indicators.macd > 0>>)
        bearish_signals == 3 - bullish_signals
    IN  IF bullish_signals > bearish_signals THEN "BULLISH"
        ELSE IF bearish_signals > bullish_signals THEN "BEARISH"
        ELSE "NEUTRAL"

\* TrendSpec: one get_trend_direction call per behaviour
TrendIndicators ==
    [ema50 : {10, 11, 12}, ema200 : {11},
     rsi : {30, 34, 35, 50, 51, 65, 66, 70},
     macd : {-1, 0, 1}, macd_histogram : {-1, 0, 1}]

TrendInputs ==
    [impl : {"pandas", "render"}, indicators : TrendIndicators \cup {NoneVal}]

TrendInit ==
    /\ BotIdle /\ GateIdle /\ BarsIdle /\ IndIdle
    /\ call_in \in TrendInputs
    /\ call_out = [done |-> FALSE]

TrendApply ==
    /\ ~call_out.done
    /\ call_out' = [done |-> TRUE,
                    trend |-> IF call_in.impl = "pandas"
                              THEN get_trend_direction_pd(call_in.indicators)
                              ELSE get_trend_direction(call_in.indicators)]
    /\ UNCHANGED <<call_in, botVars, gateVars, barVars, indVars>>

TrendNext == TrendApply

TrendSpec == TrendInit /\ [][TrendNext]_vars

TrendCall ==
    /\ call_in # NoneVal /\ "indicators" \in DOMAIN call_in /\ "impl" \in DOMAIN call_in
    /\ "trend" \in DOMAIN call_out

\* how many of fastMA > slowMA, oscillator > 50, primaryLine > 0 hold
ConditionsHeld ==
    Votes(<<call_in.indicators.ema50 > call_in.indicators.ema200,
            call_in.indicators.rsi > 50,
            call_in.indicators.macd > 0>>)

MajorityVote ==
    /\ call_out.trend = "BULLISH" <=> ConditionsHeld >= 2
    /\ call_out.trend = "BEARISH" <=> ConditionsHeld <= 1

\* C21: get_trend_direction returns BULLISH exactly when at least two of
\* fastMA > slowMA, oscillator > 50, primaryLine > 0 hold and BEARISH exactly
\* when at most one holds, for every combination of indicator values; NEUTRAL
\* only on missing indicators.
C21_TrendMajorityVote ==
    TrendCall =>
        IF IsNone(call_in.indicators) THEN call_out.trend = "NEUTRAL"
        ELSE MajorityVote

\* what does hold: TechnicalAnalysis.get_trend_direction is the majority vote
TrendMajorityVotePd ==
    (TrendCall /\ call_in.impl = "pandas") =>
        IF IsNone(call_in.indicators) THEN call_out.trend = "NEUTRAL"
        ELSE MajorityVote

\* the render class answers NEUTRAL although all three conditions hold
OverboughtIsNeutral ==
    /\ TrendCall /\ call_in.impl = "render" /\ ~IsNone(call_in.indicators)
    /\ ConditionsHeld = 3 /\ call_in.indicators.macd_histogram > 0
    /\ call_in.indicators.rsi = 70
    /\ call_out.trend = "NEUTRAL"

\* the render class votes with the histogram: BEARISH although the moving
\* averages and the MACD line are bullish
HistogramVotes ==
    /\ TrendCall /\ call_in.impl = "render" /\ ~IsNone(call_in.indicators)
    /\ ConditionsHeld = 2 /\ call_in.indicators.rsi = 50
    /\ call_in.indicators.macd_histogram < 0
    /\ call_out.trend = "BEARISH"


-----------------------------------------------------------------------------
(* SharedSpec: two threads call analyze_smart_money_concepts on one         *)
(* analyser object and one bar series.  SmartMoneyConcepts first assigns    *)
(* self.fvg_threshold (lines 269-274) and then runs the detectors, which    *)
(* read it (lines 179, 196); the two are separate steps of a thread.        *)
(* SmartMoneyConceptsRender assigns nothing.                                *)

Threads == {1, 2}

SharedInit ==
    /\ BotIdle /\ GateIdle /\ IndIdle
    /\ bars \in GapSeries
    /\ swing_strength = DefaultSwingStrength
    /\ fvg_threshold = DefaultFvgThreshold
    /\ smc_out = NoneVal
    /\ call_in \in [impl : {"pandas", "render"},
                    symbol : [Threads -> DOMAIN symbols]]
    /\ call_out = [pc |-> [t \in Threads |-> "start"],
                   result |-> [t \in Threads |-> NoneVal]]

\* SmartMoneyConcepts.analyze_smart_money_concepts, lines 269-274
AssignThreshold(t) ==
    /\ call_in.impl = "pandas" /\ call_out.pc[t] = "start"
    /\ fvg_threshold' = fvg_threshold_for(call_in.symbol[t])
    /\ call_out' = [call_out EXCEPT !.pc[t] = "assigned"]
    /\ UNCHANGED <<bars, swing_strength, smc_out, call_in, botVars, gateVars, indVars>>

\* SmartMoneyConcepts.analyze_smart_money_concepts, lines 276-298
RunDetectors(t) ==
    /\ call_in.impl = "pandas" /\ call_out.pc[t] = "assigned"
    /\ call_out' = [call_out EXCEPT
                       !.pc[t] = "done",
                       !.result[t] = analyze_smart_money_concepts_pd(
                                         bars, swing_strength, fvg_threshold)]
    /\ UNCHANGED <<barVars, call_in, botVars, gateVars, indVars>>

\* SmartMoneyConceptsRender.analyze_smart_money_concepts
RunRender(t) ==
    /\ call_in.impl = "render" /\ call_out.pc[t] = "start"
    /\ call_out' = [call_out EXCEPT
                       !.pc[t] = "done",
                       !.result[t] = analyze_smart_money_concepts(
                                         bars, swing_strength, fvg_threshold)]
    /\ UNCHANGED <<barVars, call_in, botVars, gateVars, indVars>>

SharedNext ==
    \/ \E t \in Threads : AssignThreshold(t)
    \/ \E t \in Threads : RunDetectors(t)
    \/ \E t \in Threads : RunRender(t)

SharedSpec == SharedInit /\ [][SharedNext]_vars

SharedCall == call_in # NoneVal /\ "pc" \in DOMAIN call_out

\* the analysis of the symbol by a new analyser that analyses nothing else
AnalysedAlone(symbol) ==
    IF call_in.impl = "pandas"
    THEN analyze_smart_money_concepts_pd(bars, DefaultSwingStrength,
                                         fvg_threshold_for(symbol))
    ELSE analyze_smart_money_concepts(bars, DefaultSwingStrength, DefaultFvgThreshold)

ResultIndependent ==
    SharedCall =>
        \A t \in Threads :
            call_out.pc[t] = "done" => call_out.result[t] = AnalysedAlone(call_in.symbol[t])

FieldsKept ==
    /\ bars' = bars
    /\ swing_strength' = swing_strength
    /\ fvg_threshold' = fvg_threshold

\* C22: analysing an instrument leaves the bar series and the analyser's
\* fields swing_strength and fvg_threshold unchanged, and the result for an
\* instrument is the same whichever instruments were analysed before it or
\* are analysed concurrently on the same analyser.
C22_DetectorsDoNotMutate == [][FieldsKept]_vars /\ []ResultIndependent

\* what does hold: SmartMoneyConceptsRender keeps the fields and its results
RenderDoesNotMutate ==
    /\ [][call_in.impl = "render" => FieldsKept]_vars
    /\ [](call_in.impl = "render" => ResultIndependent)

\* what does hold: neither class changes the bars or swing_strength
BarsAndStrengthKept == [][bars' = bars /\ swing_strength' = swing_strength]_vars

\* SmartMoneyConcepts: analysing BTC-USD has set the threshold to 5.0
ThresholdReassigned ==
    /\ SharedCall /\ call_in.impl = "pandas"
    /\ \E t \in Threads : call_in.symbol[t] = "BTC-USD" /\ call_out.pc[t] # "start"
    /\ fvg_threshold = CryptoFvgThreshold

\* SmartMoneyConcepts: the analysis of EURUSD=X ran with the threshold the
\* other thread assigned for BTC-USD and misses the gap it returns alone
ConcurrentResultDiffers ==
    /\ SharedCall /\ call_in.impl = "pandas"
    /\ \E t \in Threads :
          /\ call_in.symbol[t] = "EURUSD=X" /\ call_out.pc[t] = "done"
          /\ call_out.result[t].fvg_signals = <<>>
          /\ AnalysedAlone("EURUSD=X").fvg_signals # <<>>


-----------------------------------------------------------------------------
(* The values of TechnicalAnalysisRender.calculate_rsi.  Closes are         *)
(* integers; the averages are kept as exact fractions gain / scale and      *)
(* loss / scale with one scale, and an RSI value as the fraction num / den. *)

\* faulty variant: no test for a zero average loss
rsi_value_unguarded(gain, loss) == [num |-> 100 * gain, den |-> gain + loss]

\* lines 41-46: 100 when avg_loss == 0, else 100 - 100 / (1 + avg_gain / avg_loss),
\* which is 100 * avg_gain / (avg_gain + avg_loss)
rsi_value(gain, loss) ==
    IF loss = 0 THEN [num |-> 100, den |-> 1]
    ELSE [num |-> 100 * gain, den |-> gain + loss]

Deltas(prices) == [k \in 1..(Len(prices) - 1) |-> prices[k + 1] - prices[k]]
Gains(deltas) == [k \in DOMAIN deltas |-> IF deltas[k] > 0 THEN deltas[k] ELSE 0]
Losses(deltas) == [k \in DOMAIN deltas |-> IF deltas[k] < 0 THEN -deltas[k] ELSE 0]

\* lines 35-36: the averages of the first `period` gains and losses
initial_averages(deltas, period) ==
    [gain |-> SumSeq(SubSeq(Gains(deltas), 1, period)),
     loss |-> SumSeq(SubSeq(Losses(deltas), 1, period)),
     scale |-> period]

\* lines 50-51: avg = (avg * (period - 1) + value[i]) / period
wilder_update(avg, deltas, period, i) ==
    [gain |-> avg.gain * (period - 1) + At(Gains(deltas), i) * avg.scale,
     loss |-> avg.loss * (period - 1) + At(Losses(deltas), i) * avg.scale,
     scale |-> avg.scale * period]

\* the loop of lines 40-51 from index i on
RECURSIVE rsi_loop(_, _, _, _)
rsi_loop(avg, deltas, period, i) ==
    IF i >= Len(deltas) THEN <<>>
    ELSE <<rsi_value(avg.gain, avg.loss)>>
         \o rsi_loop(IF i < Len(deltas) - 1 THEN wilder_update(avg, deltas, period, i)
                     ELSE avg,
                     deltas, period, i + 1)

\* TechnicalAnalysisRender.calculate_rsi, the values
calculate_rsi_values(prices, period) ==
    IF Len(prices) < period + 1 THEN NoneVal
    ELSE [kind |-> "list",
          values |-> rsi_loop(initial_averages(Deltas(prices), period),
                              Deltas(prices), period, period)]

\* RsiSpec: one calculate_rsi(prices, 14) call per behaviour
MaxRsiCloses == 17

\* 15 closes: rising, flat, falling, alternating, and two up one down
RsiHeads ==
    {[k \in 1..(RsiPeriod + 1) |-> 100 + k],
     [k \in 1..(RsiPeriod + 1) |-> 100],
     [k \in 1..(RsiPeriod + 1) |-> 100 - k],
     [k \in 1..(RsiPeriod + 1) |-> 100 + (k % 2)],
     [k \in 1..(RsiPeriod + 1) |-> 100 + k - 2 * (k \div 3)]}

RECURSIVE Extended(_, _)
Extended(series, n) ==
    IF n = 0 THEN {series}
    ELSE {series} \cup UNION {Extended(Append(series, Last(series) + step), n - 1) :
                                  step \in {-2, -1, 0, 1, 2}}

RsiInputs ==
    UNION {Extended(head, MaxRsiCloses - (RsiPeriod + 1)) : head \in RsiHeads}

RsiInit ==
    /\ BotIdle /\ GateIdle /\ BarsIdle /\ IndIdle
    /\ call_in \in [prices : RsiInputs]
    /\ call_out = [done |-> FALSE]

RsiApply ==
    /\ ~call_out.done
    /\ call_out' = [done |-> TRUE,
                    rsi |-> calculate_rsi_values(call_in.prices, RsiPeriod)]
    /\ UNCHANGED <<call_in, botVars, gateVars, barVars, indVars>>

RsiNext == RsiApply

RsiSpec == RsiInit /\ [][RsiNext]_vars

RsiCall == call_in # NoneVal /\ "prices" \in DOMAIN call_in /\ "rsi" \in DOMAIN call_out

RsiValues == call_out.rsi.values

\* the averages the value at position k of the result was computed from
RECURSIVE AveragesAt(_, _)
AveragesAt(prices, k) ==
    IF k = 1 THEN initial_averages(Deltas(prices), RsiPeriod)
    ELSE wilder_update(AveragesAt(prices, k - 1), Deltas(prices), RsiPeriod,
                       RsiPeriod + k - 2)

IsHundred(value) == value.den > 0 /\ value.num = 100 * value.den
InPercentRange(value) == value.den > 0 /\ value.num >= 0 /\ value.num <= 100 * value.den

\* C23: for every close sequence of length >= 15, every value calculate_rsi
\* (period 14) returns lies in [0, 100], and each value computed while the
\* smoothed average loss is zero is exactly 100, never an error or an
\* undefined value.
C23_RsiRange ==
    RsiCall =>
        /\ ~IsNone(call_out.rsi)
        /\ \A k \in 1..Len(RsiValues) :
              /\ InPercentRange(RsiValues[k])
              /\ AveragesAt(call_in.prices, k).loss = 0 => IsHundred(RsiValues[k])

\* a flat series: both averages are zero and every value is 100
C23_Witness ==
    /\ RsiCall /\ Len(RsiValues) = 2
    /\ \A k \in 1..(Len(call_in.prices) - 1) : call_in.prices[k + 1] = call_in.prices[k]
    /\ \A k \in 1..2 : IsHundred(RsiValues[k])

\* a series with gains and losses: a value strictly between 0 and 100
C23_WitnessBetween ==
    /\ RsiCall /\ Len(RsiValues) = 2
    /\ RsiValues[2].num > 0 /\ RsiValues[2].num < 100 * RsiValues[2].den


SameValue(a, b) == a.num * b.den = b.num * a.den

WithFinalClose(prices, close) == [prices EXCEPT ![Len(prices)] = close]

\* the value the averages give once every delta, the final one included, is in them
UpToDateValue(prices) ==
    LET avg == AveragesAt(prices, Len(prices) - RsiPeriod)
    IN  rsi_value(avg.gain, avg.loss)

FinalCloses(prices) == {prices[Len(prices) - 1] + step : step \in {-2, -1, 0, 1, 2}}

\* C30: the last value calculate_rsi returns is computed from averages that
\* include every price change up to the final one in the input.
C30_LatestRsiUpToDate ==
    (RsiCall /\ Len(RsiValues) >= 1) =>
        SameValue(Last(RsiValues), UpToDateValue(call_in.prices))

\* what the code does: the final close never changes the latest value
LatestIgnoresFinalClose ==
    (RsiCall /\ Len(RsiValues) >= 1) =>
        \A close \in FinalCloses(call_in.prices) :
            LET other == calculate_rsi_values(WithFinalClose(call_in.prices, close),
                                              RsiPeriod).values
            IN  other = RsiValues

\* a fall on the final bar of a rising series: the latest value is still 100
FinalFallUnseen ==
    /\ RsiCall /\ Len(RsiValues) = 2
    /\ Last(call_in.prices) < call_in.prices[Len(call_in.prices) - 1]
    /\ IsHundred(Last(RsiValues))
    /\ ~IsHundred(UpToDateValue(call_in.prices))

\* 15 closes give no value at all
NoValueAtFifteen ==
    /\ RsiCall /\ Len(call_in.prices) = RsiPeriod + 1
    /\ RsiValues = <<>>


-----------------------------------------------------------------------------
(* MarketDataClient.fetch_data followed by TradingBot.process_symbol.      *)
(* A response is "error" (the request raises), "invalid" (no chart or no   *)
(* quotes) or "ok" with rows bars of which missing carry a None price.     *)

MinDataPoints == 50

\* MarketDataClient._clean_data: the bars whose four prices are all present
clean_data(rows, missing) == rows - missing

\* MarketDataClient.fetch_data: None or the dict of six cleaned lists
fetch_data(response, rows, missing) ==
    IF response # "ok" THEN NoneVal
    ELSE IF clean_data(rows, missing) < MinDataPoints THEN NoneVal
    ELSE MarketData("dict", clean_data(rows, missing), 10, 2000)

RowCounts == {50, 200, 201, 480}
MissingCounts == {0, 1}

FetchInit ==
    /\ BotIdle /\ GateIdle /\ BarsIdle /\ IndIdle
    /\ call_in \in [symbol : DOMAIN symbols, response : {"error", "invalid", "ok"},
                    rows : RowCounts, missing : MissingCounts, gen : GenResults]
    /\ call_out = [at |-> "fetch"]

\* data = self.fetch_market_data(symbol)
FetchMarketData ==
    /\ call_out.at = "fetch"
    /\ call_out' = [at |-> "fetched",
                    data |-> fetch_data(call_in.response, call_in.rows, call_in.missing)]
    /\ UNCHANGED <<call_in, botVars, gateVars, barVars, indVars>>

\* the rest of process_symbol
ProcessFetched ==
    /\ call_out.at = "fetched"
    /\ \E success \in BOOLEAN :
         call_out' = [at |-> "done", data |-> call_out.data,
                      result |-> process_symbol(call_in.symbol, <<>>, call_out.data,
                                                call_in.gen, success, 0)]
    /\ UNCHANGED <<call_in, botVars, gateVars, barVars, indVars>>

FetchNext == FetchMarketData \/ ProcessFetched

FetchSpec == FetchInit /\ [][FetchNext]_vars

Processed == call_in # NoneVal /\ "response" \in DOMAIN call_in /\ call_out.at = "done"

\* the valid bars of the fetched series
ValidBars == clean_data(call_in.rows, call_in.missing)

\* C24: process_symbol skips a symbol as 'insufficient data' only when the
\* fetch returned no data or fewer than 200 bars; whenever the series returned
\* by MarketDataClient.fetch_data has at least 200 valid bars, generate_signal
\* is invoked.
C24_DataSufficiency ==
    Processed =>
        (call_out.result.outcome = "insufficient"
            <=> (IsNone(call_out.data) \/ ValidBars < MinBars))

\* what the code does: len(data) is the number of keys of the dict
EveryFetchSkipped == Processed => call_out.result.outcome = "insufficient"

\* a series of 480 valid bars is skipped
LongSeriesSkipped ==
    /\ Processed /\ ~IsNone(call_out.data) /\ ValidBars = 480
    /\ call_out.result.outcome = "insufficient"


-----------------------------------------------------------------------------
(* TradingBot.generate_signal with the scorer's result computed by the     *)
(* scorer itself: SmartMoneyConceptsRender is the class TradingBot wires   *)
(* (trading_bot.py:25), SmartMoneyConcepts the pandas class beside it.     *)

WiringInputs ==
    [impl : {"render"}, smc_analysis : RenderAnalyses,
     indicators : {BullishIndicators, BearishIndicators},
     data : {MarketData("dict", 200, 10, 2000), MarketData("frame", 200, 10, 2000)}]
    \cup [impl : {"pandas"}, smc_analysis : PdAnalyses,
          indicators : {BullishIndicators, BearishIndicators},
          data : {MarketData("dict", 200, 10, 2000), MarketData("frame", 200, 10, 2000)}]

WiringInit ==
    /\ BotIdle /\ GateIdle /\ BarsIdle /\ IndIdle
    /\ call_in \in WiringInputs
    /\ call_out = [at |-> "score"]

\* line 68: smc_signal = self.smart_money_concepts.calculate_smc_signal_strength(smc_analysis)
ScoreAnalysis ==
    /\ call_out.at = "score"
    /\ call_out' = [at |-> "scored",
                    smc_signal |-> IF call_in.impl = "render"
                                   THEN calculate_smc_signal_strength(call_in.smc_analysis)
                                   ELSE calculate_smc_signal_strength_pd(call_in.smc_analysis)]
    /\ UNCHANGED <<call_in, botVars, gateVars, barVars, indVars>>

\* lines 70-141: the votes, the gate and the signal
GateAndBuild ==
    /\ call_out.at = "scored"
    /\ call_out' = [at |-> "done", smc_signal |-> call_out.smc_signal,
                    accepted |-> is_high_quality_setup(call_out.smc_signal,
                                     traditional_signals_of(call_in.indicators),
                                     "EURUSD=X", call_in.data, 10, 2),
                    signal |-> generate_signal("EURUSD=X", call_in.data,
                                   call_in.indicators, SmcAnalysis,
                                   call_out.smc_signal, 10, 2, 0)]
    /\ UNCHANGED <<call_in, botVars, gateVars, barVars, indVars>>

WiringNext == ScoreAnalysis \/ GateAndBuild

WiringSpec == WiringInit /\ [][WiringNext]_vars

Wired(impl) ==
    call_in # NoneVal /\ "indicators" \in DOMAIN call_in /\ call_in.impl = impl
    /\ call_out.at = "done"

\* the values is_high_quality_setup compares with 0.75 and with 2
GateConfidence == Get(call_out.smc_signal, "confidence", 0)
GateSignalCount == Get(call_out.smc_signal, "signal_count", 0)

\* C25: the confidence and the signal count the quality gate compares with
\* 0.75 and 2 are the values the wired confluence scorer computed.
C25_ScorerToGateWiring ==
    Wired("render") =>
        /\ GateConfidence = call_out.smc_signal.strength
        /\ GateSignalCount = call_out.smc_signal.confluence

\* what the code does: the gate reads its defaults and rejects every setup
WiredGateReadsDefaults ==
    Wired("render") =>
        /\ GateConfidence = 0 /\ GateSignalCount = 0
        /\ ~call_out.accepted /\ IsNone(call_out.signal)

\* with the scorer of SmartMoneyConcepts the gate reads what was computed
PandasScorerReachesGate ==
    Wired("pandas") =>
        /\ GateConfidence = call_out.smc_signal.confidence
        /\ "signal_count" \in DOMAIN call_out.smc_signal
              => GateSignalCount = call_out.smc_signal.signal_count

\* three bullish patterns of strength 0.8 or more are rejected
StrongSetupRejected ==
    /\ Wired("render")
    /\ call_out.smc_signal.direction = "BUY"
    /\ call_out.smc_signal.strength >= 800 /\ call_out.smc_signal.confluence >= 3
    /\ call_in.indicators = BullishIndicators
    /\ ~call_out.accepted /\ IsNone(call_out.signal)

\* the scorer of SmartMoneyConcepts does lead to an accepted BUY
PandasSetupAccepted ==
    /\ Wired("pandas") /\ call_out.accepted
    /\ ~IsNone(call_out.signal) /\ call_out.signal.direction = "BUY"


-----------------------------------------------------------------------------
(* Successive TradingBot.process_symbol calls on frames that yield a        *)
(* signal, with the history of what the notifier delivered.                 *)

CycleSeconds == 900
MaxClock == 7200
MaxSent == 3

DedupSymbols == {"EURUSD=X", "GBPUSD=X"}

DedupGen ==
    {Gen(BullishIndicators, SmcAnalysis, ScorerResult("BUY", 800, 2), 10, 2),
     Gen(BearishIndicators, SmcAnalysis, ScorerResult("SELL", 800, 2), 10, 2)}

DedupInit ==
    /\ BotIdle /\ GateIdle /\ BarsIdle /\ IndIdle
    /\ call_in = [calls |-> "process_symbol"]
    /\ call_out = [last_signals |-> <<>>, sent |-> <<>>, clock |-> 0]

\* one process_symbol call, a cycle or more after the previous one
ProcessAgain ==
    /\ call_in # NoneVal /\ "calls" \in DOMAIN call_in
    /\ Len(call_out.sent) < MaxSent
    /\ \E symbol \in DedupSymbols, gen \in DedupGen, success \in BOOLEAN, cycles \in 1..4 :
         LET t == call_out.clock + cycles * CycleSeconds
             r == process_symbol(symbol, call_out.last_signals,
                                 MarketData("frame", 200, 10, 2000), gen, success, t)
         IN  /\ t <= MaxClock
             /\ call_out' = [last_signals |-> r.last_signals,
                             sent |-> IF r.outcome = "sent"
                                      THEN Append(call_out.sent, r.signal)
                                      ELSE call_out.sent,
                             clock |-> t]
    /\ UNCHANGED <<call_in, botVars, gateVars, barVars, indVars>>

DedupNext == ProcessAgain

DedupSpec == DedupInit /\ [][DedupNext]_vars

Sent == IF call_in # NoneVal /\ "calls" \in DOMAIN call_in THEN call_out.sent ELSE <<>>

SameSetup(a, b) == a.symbol = b.symbol /\ a.direction = b.direction

\* C26: two delivered signals of one instrument and one direction are at
\* least an hour apart, also when a signal of the opposite direction was
\* delivered between them.
C26_NoRepeatWithinHour ==
    \A i, j \in DOMAIN Sent :
        (i < j /\ SameSetup(Sent[i], Sent[j]))
            => Sent[j].timestamp - Sent[i].timestamp >= DedupWindow

\* what the code does: only the last delivered signal of the instrument counts
NoRepeatOfLastWithinHour ==
    \A i, j \in DOMAIN Sent :
        (/\ i < j /\ SameSetup(Sent[i], Sent[j])
         /\ \A k \in (i + 1)..(j - 1) : Sent[k].symbol # Sent[i].symbol)
            => Sent[j].timestamp - Sent[i].timestamp >= DedupWindow

\* BUY, SELL, BUY of one instrument, the two BUYs half an hour apart
RepeatAfterOpposite ==
    /\ Len(Sent) = 3
    /\ Sent[1].symbol = Sent[2].symbol /\ SameSetup(Sent[1], Sent[3])
    /\ Sent[1].direction = "BUY" /\ Sent[2].direction = "SELL"
    /\ Sent[3].timestamp - Sent[1].timestamp = 2 * CycleSeconds


-----------------------------------------------------------------------------
(* The stop request and the running flag *)

\* C27: a stop request is never lost: once stop() has been called, also
\* before start() has set the running flag, the loop eventually terminates.
C27_StopNeverLost == (stop_called # "no") ~> (pc = "stopped")

\* what the code does: a stop() that follows the assignment in start() is honoured
StopAfterStartHonoured == (stop_called = "yes") ~> (pc = "stopped")

\* stop() came first, start() has set the flag again and a cycle is running
EarlyStopOverwritten ==
    /\ stop_called = "early"
    /\ running
    /\ pc = "process"


-----------------------------------------------------------------------------
(* The BOS and MSS detectors of both classes called on the same closing     *)
(* price and the same swing points.                                         *)

MaxSwingPoints == 2
SwingTimes == {1, 2, 3}
SwingPrices == {2, 4}
StructureCloses == {1, 3, 5}

\* up to MaxSwingPoints swing points in increasing order of time
SwingLists(type) ==
    {points \in SeqsUpTo({SwingPoint(t, price, type) : t \in SwingTimes, price \in SwingPrices},
                         MaxSwingPoints) :
        \A k \in 1..(Len(points) - 1) : points[k].timestamp < points[k + 1].timestamp}

StructureInit ==
    /\ BotIdle /\ GateIdle /\ BarsIdle /\ IndIdle
    /\ call_in \in [impl : {"pandas", "render"}, close : StructureCloses,
                    swing_highs : SwingLists("swing_high"),
                    swing_lows : SwingLists("swing_low")]
    /\ call_out = [done |-> FALSE]

StructureApply ==
    /\ ~call_out.done
    /\ LET data == <<Bar(call_in.close, call_in.close, call_in.close, call_in.close, 1)>>
           swing_points == [swing_highs |-> call_in.swing_highs,
                            swing_lows |-> call_in.swing_lows]
       IN  call_out' =
             IF call_in.impl = "render"
             THEN [done |-> TRUE,
                   bos_signals |-> detect_break_of_structure(data, swing_points),
                   mss_signals |-> detect_market_structure_shift(data, swing_points)]
             ELSE [done |-> TRUE,
                   bos_signals |-> detect_break_of_structure_pd(data, swing_points),
                   mss_signals |-> detect_market_structure_shift_pd(data, swing_points)]
    /\ UNCHANGED <<call_in, botVars, gateVars, barVars, indVars>>

StructureNext == StructureApply

StructureSpec == StructureInit /\ [][StructureNext]_vars

StructureCall ==
    call_in # NoneVal /\ "swing_highs" \in DOMAIN call_in /\ call_out.done

BreakOf(shift) == IF shift = "MSS_BULLISH" THEN "BOS_BULLISH" ELSE "BOS_BEARISH"

\* C28: on the same input every MSS signal comes with a BOS signal of the
\* same direction, and the MSS detector returns at most one signal per call.
C28_MssImpliesBos ==
    StructureCall =>
        /\ Len(call_out.mss_signals) <= 1
        /\ \A k \in DOMAIN call_out.mss_signals :
              \E b \in DOMAIN call_out.bos_signals :
                  /\ call_out.bos_signals[b].type = BreakOf(call_out.mss_signals[k].type)
                  /\ call_out.bos_signals[b].broken_level
                         = call_out.mss_signals[k].broken_level

\* SmartMoneyConcepts: a bearish shift with one swing high and two swing lows
C28_Witness ==
    /\ StructureCall /\ call_in.impl = "pandas"
    /\ Len(call_in.swing_highs) = 1 /\ Len(call_in.swing_lows) = 2
    /\ Types(call_out.mss_signals) = <<"MSS_BEARISH">>
    /\ Types(call_out.bos_signals) = <<"BOS_BEARISH">>

\* SmartMoneyConceptsRender: a bullish shift
C28_WitnessRender ==
    /\ StructureCall /\ call_in.impl = "render"
    /\ Types(call_out.mss_signals) = <<"MSS_BULLISH">>
    /\ Types(call_out.bos_signals) = <<"BOS_BULLISH">>


-----------------------------------------------------------------------------
(* The scorers on an analysis and on the same analysis with one more        *)
(* confirming gap or order block.                                           *)

WithExtra(smc_analysis, key, extra) ==
    [smc_analysis EXCEPT ![key] = Append(@, extra)]

\* the analyses with one more gap or order block of the given direction
ConfirmedPd(smc_analysis, direction) ==
    {WithExtra(smc_analysis, "fvg_signals", x) : x \in {y \in PdFvg : y.direction = direction}}
    \cup {WithExtra(smc_analysis, "order_blocks", x) :
              x \in {y \in PdOrderBlocks : y.direction = direction}}

BullishType(type) == type \in {"FVG_BULLISH", "ORDER_BLOCK_BULLISH"}

ConfirmedRender(smc_analysis, direction) ==
    {WithExtra(smc_analysis, "fvg_signals", x) :
         x \in {y \in RenderFvg : BullishType(y.type) <=> direction = "BUY"}}
    \cup {WithExtra(smc_analysis, "order_blocks", x) :
              x \in {y \in RenderOrderBlocks : BullishType(y.type) <=> direction = "BUY"}}

ScoredPd ==
    /\ call_in # NoneVal /\ "traditional_signals" \in DOMAIN call_in
    /\ call_out.done /\ call_in.impl = "pandas"
    /\ call_in.smc_analysis \in PdAnalyses

ScoredRender ==
    /\ call_in # NoneVal /\ "traditional_signals" \in DOMAIN call_in
    /\ call_out.done /\ call_in.impl = "render"
    /\ call_in.smc_analysis \in RenderAnalyses

\* C29: when the scorer returns BUY or SELL, one more gap or order block of
\* that direction never lowers the confidence it returns and never turns the
\* action into HOLD.
C29_ConfluenceRaisesConfidence ==
    /\ (ScoredPd /\ call_out.smc_signal.action \in {"BUY", "SELL"}) =>
          \A more \in ConfirmedPd(call_in.smc_analysis, call_out.smc_signal.action) :
              LET again == calculate_smc_signal_strength_pd(more)
              IN  /\ again.confidence >= call_out.smc_signal.confidence
                  /\ again.action = call_out.smc_signal.action
    /\ (ScoredRender /\ call_out.smc_signal.direction \in {"BUY", "SELL"}) =>
          \A more \in ConfirmedRender(call_in.smc_analysis, call_out.smc_signal.direction) :
              LET again == calculate_smc_signal_strength(more)
              IN  /\ again.strength >= call_out.smc_signal.strength
                  /\ again.direction = call_out.smc_signal.direction

\* what the code does: a confirmation never reverses the action, and the
\* scorer of SmartMoneyConceptsRender keeps the direction
ConfirmationNeverReverses ==
    /\ (ScoredPd /\ call_out.smc_signal.action \in {"BUY", "SELL"}) =>
          \A more \in ConfirmedPd(call_in.smc_analysis, call_out.smc_signal.action) :
              calculate_smc_signal_strength_pd(more).action
                  \in {call_out.smc_signal.action, "HOLD"}
    /\ (ScoredRender /\ call_out.smc_signal.direction \in {"BUY", "SELL"}) =>
          \A more \in ConfirmedRender(call_in.smc_analysis, call_out.smc_signal.direction) :
              calculate_smc_signal_strength(more).direction = call_out.smc_signal.direction

\* a bullish BOS alone is BUY at 0.8; with a bullish gap it is HOLD at 0.68
ConfirmedBuyBecomesHold ==
    /\ ScoredPd
    /\ Len(call_in.smc_analysis.bos_signals) = 1 /\ call_in.smc_analysis.mss_signals = <<>>
    /\ Directions(call_in.smc_analysis.fvg_signals) = <<"BUY">>
    /\ call_in.smc_analysis.order_blocks = <<>>
    /\ call_out.smc_signal.action = "HOLD" /\ call_out.smc_signal.confidence = 680
    /\ LET alone == calculate_smc_signal_strength_pd(
                        [call_in.smc_analysis EXCEPT !["fvg_signals"] = <<>>])
       IN  alone.action = "BUY" /\ alone.confidence = 800

\* the render scorer: a weaker bullish gap lowers the strength of a BUY
ConfirmedStrengthLower ==
    /\ ScoredRender /\ call_out.smc_signal.direction = "BUY"
    /\ Len(call_in.smc_analysis.fvg_signals) = 1
    /\ call_in.smc_analysis.fvg_signals[1].type = "FVG_BULLISH"
    /\ LET alone == calculate_smc_signal_strength(
                        [call_in.smc_analysis EXCEPT !["fvg_signals"] = <<>>])
       IN  alone.direction = "BUY" /\ alone.strength > call_out.smc_signal.strength


====
